---- MODULE Spec2Model ----
(***************************************************************************)
(* Context store of go.step.sm/cli-utils: the context map and the current  *)
(* context pointer, in memory and in contexts.json / current-context.json. *)
(*                                                                         *)
(* Three revisions of the store live in the repository and are modelled    *)
(* side by side over the same two files:                                   *)
(*   - step/context.go   CtxState and its methods        (Spec)            *)
(*   - step/config.go    package level functions         (SpecLegacy)      *)
(*   - config/config.go  package init of the oldest API  (SpecConfig)      *)
(* ListAlphabetical, a pure function of the map, is checked under SpecList.*)
(*                                                                         *)
(* command/command.go sits on the package level functions of step:         *)
(*   - getConfigVars, the Before hook of a command       (SpecCommand)     *)
(*   - Register and setEnvVar                            (SpecRegister)    *)
(***************************************************************************)
EXTENDS Integers, Sequences, FiniteSets, TLC

\* ------------------------------------------------------------------ bounds
\* number of failing ioutil.WriteFile calls injected in one behaviour
MaxWriteFailures == 1
\* number of map keys in the maps handed to ListAlphabetical
MaxKeys == 3

\* the strings the user types as context name, profile and authority
CtxNames == {"a", "b"}
Profiles == {"", "p"}
Authorities == {"x", "y"}

\* ------------------------------------------------------------- data types
\* type Context struct { Name; Profile; Authority }
Context == [Name : CtxNames, Profile : Profiles, Authority : Authorities]

\* a *Context: nil or a pointer to a Context
Nil == <<>>
Ptr(c) == <<c>>
Deref(p) == p[1]

\* type ContextMap map[string]*Context ; a Go map is nil or a finite map
NilMap == [null |-> TRUE, entries |-> <<>>]
EmptyMap == [null |-> FALSE, entries |-> <<>>]
MapOf(f) == [null |-> FALSE, entries |-> f]
Has(cm, k) == k \in DOMAIN cm.entries
MapLen(cm) == Cardinality(DOMAIN cm.entries)
\* v, ok = cm[k]
Lookup(cm, k) == IF Has(cm, k) THEN Ptr(cm.entries[k]) ELSE Nil
\* cm[k] = v
Store(cm, k, v) ==
    MapOf([x \in (DOMAIN cm.entries) \cup {k} |-> IF x = k THEN v ELSE cm.entries[x]])
\* delete(cm, k)
Delete(cm, k) ==
    [null |-> cm.null, entries |-> [x \in (DOMAIN cm.entries) \ {k} |-> cm.entries[x]]]

\* ------------------------------------------------------------------ files
\* A file is absent, present but failing to stat/read, present with bytes
\* that are no JSON, or present with a JSON document.
Absent == [state |-> "absent", null |-> FALSE, entries |-> <<>>]
Unreadable == [state |-> "unreadable", null |-> FALSE, entries |-> <<>>]
Malformed == [state |-> "malformed", null |-> FALSE, entries |-> <<>>]

\* json.MarshalIndent(contexts): Name carries the tag json:"-" and is dropped,
\* the key of the map becomes the key of the JSON object; a nil map is "null".
MarshalContexts(cm) ==
    [state |-> "json", null |-> cm.null,
     entries |-> [k \in DOMAIN cm.entries |->
                    [profile |-> cm.entries[k].Profile,
                     authority |-> cm.entries[k].Authority]]]

\* json.Unmarshal(b, &m): JSON null sets the map to nil; an object fills the
\* map m with one Context per key, whose Name stays the zero value "".
UnmarshalContexts(file, m) ==
    IF file.null THEN NilMap
    ELSE MapOf([k \in (DOMAIN m.entries) \cup (DOMAIN file.entries) |->
                  IF k \in DOMAIN file.entries
                  THEN [Name |-> "", Profile |-> file.entries[k].profile,
                        Authority |-> file.entries[k].authority]
                  ELSE m.entries[k]])

\* NameByKey without the loop that copies the key into Name
NameByKeyUnset(cm) == cm

\* for k, ctx := range contexts { ctx.Name = k }
NameByKey(cm) ==
    [null |-> cm.null,
     entries |-> [k \in DOMAIN cm.entries |->
                    [Name |-> k, Profile |-> cm.entries[k].Profile,
                     Authority |-> cm.entries[k].Authority]]]

\* current-context.json holds {"context": name}
CurrentJSON(name) == [state |-> "json", context |-> name]
CurAbsent == [state |-> "absent", context |-> ""]
CurUnreadable == [state |-> "unreadable", context |-> ""]
CurMalformed == [state |-> "malformed", context |-> ""]

\* error values
OK == "nil"
ErrNotFound == "context not found"
ErrCouldNotLoad == "could not load context"
ErrRemoveCurrent == "cannot remove current context"
ErrIO == "file error"
ErrUnmarshalMap == "error unmarshaling context map"
ErrUnmarshalCurrent == "error unmarshaling current context"

VARIABLES
    contextsFile,   \* <base>/contexts.json
    currentFile,    \* <base>/current-context.json
    contexts,       \* CtxState.contexts
    current,        \* CtxState.current
    ctxMap,         \* package variable ctxMap of step/config.go, config/config.go
    currentCtx,     \* package variable currentCtx of the same
    running,        \* a process is past its package init; FALSE after log.Fatal
    listed,         \* the slice returned by the last ListAlphabetical
    failures,       \* number of ioutil.WriteFile calls that have failed so far
    last,           \* the last call: operation, argument, returned error
    cfg,            \* what the last getConfigVars call read, decided and set
    cmds,           \* package variable cmds of command/command.go
    config,         \* cs.config and the Config of the context cs.current points to
    env,            \* the environment of the process: HOME, STEPPATH, user.Current(), os.MkdirAll
    baseDir,        \* what os.Stat finds at the base path
    homePath,       \* package variable homePath
    stepBasePath,   \* package variable stepBasePath
    procs,          \* the CtxState of each of two processes that share the files
    prompt,         \* runPrompt: its options, the answers to come, the calls made, the result
    claims          \* token.Claims: the nbf and exp claims of the token being built

vars == <<contextsFile, currentFile, contexts, current, ctxMap, currentCtx,
          running, listed, failures, last, cfg, cmds,
          config,
          env,
          baseDir,
          homePath,
          stepBasePath,
          procs,
          prompt,
          claims>>

Call(op, arg, ctx, err) == [op |-> op, arg |-> arg, ctx |-> ctx, err |-> err]

\* usage.HelpCommand(), the command init() puts in cmds
HelpCommand ==
    [Name |-> "help", Before |-> "nil", Action |-> TRUE, Flags |-> <<>>,
     Subcommands |-> <<>>]

\* no command has run its Before hook in this process
NoCfg == [cmd |-> ""]

\* no prompt is running
NoPrompt ==
    [minLength |-> 0, input |-> <<>>, errAt |-> 0, calls |-> 0, pc |-> "done",
     val |-> <<>>, err |-> "nil"]

\* new(Claims): the registered claims nbf and exp, both unset
NewClaims == [NotBefore |-> Nil, Expiry |-> Nil]

\* two processes, neither of which has run Init
Procs == {1, 2}
NoProcs ==
    [p \in Procs |-> [contexts |-> NilMap, current |-> Nil, started |-> FALSE,
                      loaded |-> Absent, ops |-> <<>>]]

\* neither cs.config nor the Config of the current context has been made
NoConfig == [cs |-> NilMap, current |-> NilMap]

\* ------------------------------------------------------ initial file system
ContextsJSONs ==
    {[state |-> "json", null |-> FALSE, entries |-> f] :
        f \in UNION {[D -> [profile : Profiles, authority : Authorities]] :
                        D \in SUBSET CtxNames}}
ContextsFiles ==
    {Absent, Unreadable, Malformed, [state |-> "json", null |-> TRUE, entries |-> <<>>]}
    \cup ContextsJSONs
CurrentFiles ==
    {CurAbsent, CurUnreadable, CurMalformed} \cup {CurrentJSON(n) : n \in CtxNames}

\* ================================================= step/context.go CtxState
\* var ctxState = &CtxState{}
ZeroCtxState == [contexts |-> NilMap, current |-> Nil]

\* initMap reporting a missing contexts.json as an error
initMapAbsentFails(cs) ==
    CASE contextsFile.state \in {"absent", "unreadable"} ->
            [contexts |-> cs.contexts, err |-> ErrIO]
      [] contextsFile.state = "malformed" -> [contexts |-> EmptyMap, err |-> ErrUnmarshalMap]
      [] OTHER -> [contexts |-> NameByKey(UnmarshalContexts(contextsFile, EmptyMap)),
                   err |-> OK]

\* initMap: the new value of cs.contexts and the error
initMap(cs) ==
    CASE contextsFile.state = "absent" -> [contexts |-> cs.contexts, err |-> OK]
      [] contextsFile.state = "unreadable" -> [contexts |-> cs.contexts, err |-> ErrIO]
      [] contextsFile.state = "malformed" -> [contexts |-> EmptyMap, err |-> ErrUnmarshalMap]
      [] OTHER -> [contexts |-> NameByKey(UnmarshalContexts(contextsFile, EmptyMap)),
                   err |-> OK]

\* Set without the test of ok
SetResultNoCheck(cm, name) == [current |-> Lookup(cm, name), err |-> OK]

\* Set: cs.current, ok = cs.contexts[name]
SetResult(cm, name) ==
    [current |-> Lookup(cm, name),
     err |-> IF Has(cm, name) THEN OK ELSE ErrCouldNotLoad]

\* initCurrent on a state whose map is cm and whose current pointer is cur
initCurrent(cm, cur) ==
    CASE currentFile.state = "absent" -> [current |-> cur, err |-> OK]
      [] currentFile.state = "unreadable" -> [current |-> cur, err |-> ErrIO]
      [] currentFile.state = "malformed" -> [current |-> cur, err |-> ErrUnmarshalCurrent]
      [] OTHER -> SetResult(cm, currentFile.context)

\* Init of a fresh process: initMap, then initCurrent unless initMap failed
InitResult ==
    LET m == initMap(ZeroCtxState)
        c == initCurrent(m.contexts, ZeroCtxState.current)
    IN  IF m.err # OK
        THEN [contexts |-> m.contexts, current |-> ZeroCtxState.current, err |-> m.err]
        ELSE [contexts |-> m.contexts, current |-> c.current, err |-> c.err]

CsInit ==
    /\ contexts' = InitResult.contexts
    /\ current' = InitResult.current
    /\ last' = Call("Init", "", Nil, InitResult.err)
    /\ UNCHANGED <<contextsFile, currentFile, ctxMap, currentCtx, running, listed, failures, cfg, cmds, config, env, baseDir, homePath, stepBasePath, procs, prompt, claims>>

\* Enabled
Enabled == current # Nil \/ MapLen(contexts) > 0

\* GetCurrent
GetCurrent == current

\* Get
Get(name) == IF contexts.null THEN Nil ELSE Lookup(contexts, name)

\* Set
Set(name) ==
    /\ current' = SetResult(contexts, name).current
    /\ last' = Call("Set", name, Nil, SetResult(contexts, name).err)
    /\ UNCHANGED <<contextsFile, currentFile, contexts, ctxMap, currentCtx, running, listed, failures, cfg, cmds, config, env, baseDir, homePath, stepBasePath, procs, prompt, claims>>

\* SaveCurrent without the lookup of the name
SaveCurrentResultNoCheck(cm, name, wr) ==
    IF ~wr THEN [err |-> ErrIO, file |-> currentFile, failed |-> 1]
    ELSE [err |-> OK, file |-> CurrentJSON(name), failed |-> 0]

\* SaveCurrent: the error, the new current-context.json and the number of
\* failed writes; wr tells whether ioutil.WriteFile succeeds
SaveCurrentResult(cm, name, wr) ==
    IF (IF cm.null THEN Nil ELSE Lookup(cm, name)) = Nil
    THEN [err |-> ErrNotFound, file |-> currentFile, failed |-> 0]
    ELSE IF ~wr THEN [err |-> ErrIO, file |-> currentFile, failed |-> 1]
    ELSE [err |-> OK, file |-> CurrentJSON(name), failed |-> 0]

SaveCurrent(name, wr) ==
    LET r == SaveCurrentResult(contexts, name, wr)
    IN  /\ failures + r.failed <= MaxWriteFailures
        /\ currentFile' = r.file
        /\ failures' = failures + r.failed
        /\ last' = Call("SaveCurrent", name, Nil, r.err)
        /\ UNCHANGED <<contextsFile, contexts, current, ctxMap, currentCtx, running, listed, cfg, cmds, config, env, baseDir, homePath, stepBasePath, procs, prompt, claims>>

\* Add saving the added context as current whatever cs.current is
AddResultAlwaysSave(cm, cur, ctx, wr1, wr2) ==
    LET m == IF cm.null THEN MapOf([k \in {ctx.Name} |-> ctx])
             ELSE Store(cm, ctx.Name, ctx)
        s == SaveCurrentResult(m, ctx.Name, wr2)
    IN  IF ~wr1
        THEN [contexts |-> m, cfile |-> contextsFile, file |-> currentFile,
              err |-> ErrIO, failed |-> 1]
        ELSE [contexts |-> m, cfile |-> MarshalContexts(m), file |-> s.file,
              err |-> s.err, failed |-> s.failed]

\* Add that reads contexts.json again and keeps what another process put there
AddResultMergesFile(cm, cur, ctx, wr1, wr2) ==
    LET onDisk == IF contextsFile.state = "json"
                  THEN NameByKey(UnmarshalContexts(contextsFile, EmptyMap))
                  ELSE EmptyMap
        m == Store(IF cm.null THEN onDisk
                   ELSE MapOf([k \in (DOMAIN cm.entries) \cup (DOMAIN onDisk.entries) |->
                                 IF k \in DOMAIN onDisk.entries THEN onDisk.entries[k]
                                 ELSE cm.entries[k]]),
                   ctx.Name, ctx)
        s == SaveCurrentResult(m, ctx.Name, wr2)
    IN  IF ~wr1
        THEN [contexts |-> m, cfile |-> contextsFile, file |-> currentFile,
              err |-> ErrIO, failed |-> 1]
        ELSE IF cur = Nil
        THEN [contexts |-> m, cfile |-> MarshalContexts(m), file |-> s.file,
              err |-> s.err, failed |-> s.failed]
        ELSE [contexts |-> m, cfile |-> MarshalContexts(m), file |-> currentFile,
              err |-> OK, failed |-> 0]

\* Add that never stores the added context as the current one
AddResultNoPromote(cm, cur, ctx, wr1, wr2) ==
    LET m == IF cm.null THEN MapOf([k \in {ctx.Name} |-> ctx])
             ELSE Store(cm, ctx.Name, ctx)
    IN  IF ~wr1
        THEN [contexts |-> m, cfile |-> contextsFile, file |-> currentFile,
              err |-> ErrIO, failed |-> 1]
        ELSE [contexts |-> m, cfile |-> MarshalContexts(m), file |-> currentFile,
              err |-> OK, failed |-> 0]

\* Add: wr1 is the outcome of writing contexts.json, wr2 of current-context.json
AddResult(cm, cur, ctx, wr1, wr2) ==
    LET m == IF cm.null THEN MapOf([k \in {ctx.Name} |-> ctx])
             ELSE Store(cm, ctx.Name, ctx)
        s == SaveCurrentResult(m, ctx.Name, wr2)
    IN  IF ~wr1
        THEN [contexts |-> m, cfile |-> contextsFile, file |-> currentFile,
              err |-> ErrIO, failed |-> 1]
        ELSE IF cur = Nil
        THEN [contexts |-> m, cfile |-> MarshalContexts(m), file |-> s.file,
              err |-> s.err, failed |-> s.failed]
        ELSE [contexts |-> m, cfile |-> MarshalContexts(m), file |-> currentFile,
              err |-> OK, failed |-> 0]

Add(ctx, wr1, wr2) ==
    LET r == AddResult(contexts, current, ctx, wr1, wr2)
    IN  /\ failures + r.failed <= MaxWriteFailures
        /\ contexts' = r.contexts
        /\ contextsFile' = r.cfile
        /\ currentFile' = r.file
        /\ failures' = failures + r.failed
        /\ last' = Call("Add", ctx.Name, Ptr(ctx), r.err)
        /\ UNCHANGED <<current, ctxMap, currentCtx, running, listed, cfg, cmds, config, env, baseDir, homePath, stepBasePath, procs, prompt, claims>>

\* Remove without the two "not found" returns
RemoveResultNoLookup(cm, cur, name, wr) ==
    IF cur # Nil /\ Deref(cur).Name = name
    THEN [contexts |-> cm, cfile |-> contextsFile, err |-> ErrRemoveCurrent, failed |-> 0]
    ELSE IF ~wr
    THEN [contexts |-> Delete(cm, name), cfile |-> contextsFile, err |-> ErrIO,
          failed |-> 1]
    ELSE [contexts |-> Delete(cm, name), cfile |-> MarshalContexts(Delete(cm, name)),
          err |-> OK, failed |-> 0]

\* Remove: wr is the outcome of writing contexts.json
RemoveResult(cm, cur, name, wr) ==
    IF cm.null
    THEN [contexts |-> cm, cfile |-> contextsFile, err |-> ErrNotFound, failed |-> 0]
    ELSE IF ~Has(cm, name)
    THEN [contexts |-> cm, cfile |-> contextsFile, err |-> ErrNotFound, failed |-> 0]
    ELSE IF cur # Nil /\ Deref(cur).Name = name
    THEN [contexts |-> cm, cfile |-> contextsFile, err |-> ErrRemoveCurrent, failed |-> 0]
    ELSE IF ~wr
    THEN [contexts |-> Delete(cm, name), cfile |-> contextsFile, err |-> ErrIO,
          failed |-> 1]
    ELSE [contexts |-> Delete(cm, name), cfile |-> MarshalContexts(Delete(cm, name)),
          err |-> OK, failed |-> 0]

Remove(name, wr) ==
    LET r == RemoveResult(contexts, current, name, wr)
    IN  /\ failures + r.failed <= MaxWriteFailures
        /\ contexts' = r.contexts
        /\ contextsFile' = r.cfile
        /\ failures' = failures + r.failed
        /\ last' = Call("Remove", name, Nil, r.err)
        /\ UNCHANGED <<currentFile, current, ctxMap, currentCtx, running, listed, cfg, cmds, config, env, baseDir, homePath, stepBasePath, procs, prompt, claims>>

\* ==================================================== paths, path/filepath
\* A path is the sequence of the pieces of the string between its separators
\* (strings.Split(s, "/")): "/home/u/" is <<"", "home", "u", "">>, "/" is
\* <<"", "">>, the empty string is <<"">>.
EmptyString == <<"">>

\* filepath.Clean: separators are merged, "." elements and inner ".." elements
\* with the element before them are dropped, ".." at the start of a rooted
\* path is dropped, the trailing separator goes, and the empty result is ".".
RECURSIVE CleanFrom(_, _, _, _)
CleanFrom(p, i, out, rooted) ==
    IF i > Len(p) THEN out
    ELSE CASE p[i] \in {"", "."} -> CleanFrom(p, i + 1, out, rooted)
           [] p[i] = ".." ->
                IF out # <<>> /\ out[Len(out)] # ".."
                THEN CleanFrom(p, i + 1, SubSeq(out, 1, Len(out) - 1), rooted)
                ELSE IF rooted THEN CleanFrom(p, i + 1, out, rooted)
                ELSE CleanFrom(p, i + 1, Append(out, ".."), rooted)
           [] OTHER -> CleanFrom(p, i + 1, Append(out, p[i]), rooted)

Clean(p) ==
    LET rooted == Len(p) >= 2 /\ p[1] = ""
        out == CleanFrom(p, 1, <<>>, rooted)
    IN  IF rooted THEN <<"">> \o (IF out = <<>> THEN <<"">> ELSE out)
        ELSE IF out = <<>> THEN <<".">> ELSE out

\* filepath.Join: the non-empty elements joined by separators and cleaned;
\* the empty string when every element is empty
RECURSIVE JoinFrom(_, _, _)
JoinFrom(elems, i, out) ==
    IF i > Len(elems) THEN out
    ELSE IF elems[i] = EmptyString THEN JoinFrom(elems, i + 1, out)
    ELSE JoinFrom(elems, i + 1, out \o elems[i])

Join(elems) ==
    IF JoinFrom(elems, 1, <<>>) = <<>> THEN EmptyString
    ELSE Clean(JoinFrom(elems, 1, <<>>))

\* ------------------------------------------------ the process environment
\* os.Getenv(HomeEnv), os.Getenv(PathEnv), the result of user.Current() and
\* whether os.MkdirAll can make the base directory
Env(home, steppath, usrErr, usrHome, mkdir) ==
    [HOME |-> home, STEPPATH |-> steppath,
     usr |-> [err |-> usrErr, HomeDir |-> usrHome], mkdir |-> mkdir]

OrdinaryEnv == Env(<<"", "home", "u">>, EmptyString, FALSE, <<"", "home", "u">>, TRUE)

HomeValues == {EmptyString, <<"", "home", "u">>, <<"", "home", "u", "">>, <<"", "">>}
PathValues ==
    {EmptyString, <<"", "s">>, <<"", "s", "">>, <<"", "s", "..", "t", ".", "">>, <<"rel">>}
UserHomes == {EmptyString, <<"", "root">>}

Envs ==
    {Env(h, s, e, u, m) :
        h \in HomeValues, s \in PathValues, e \in BOOLEAN, u \in UserHomes, m \in BOOLEAN}

BaseDirs == {"absent", "dir", "file", "staterror"}

\* RawPaths asking user.Current() before the environment variable HOME
RawPathsUserFirst(e) ==
    LET usrOK == ~e.usr.err /\ e.usr.HomeDir # EmptyString
        home == IF usrOK THEN e.usr.HomeDir ELSE e.HOME
    IN  [fatal |-> e.HOME = EmptyString /\ ~usrOK,
         homePath |-> home,
         stepBasePath |-> IF e.STEPPATH # EmptyString THEN e.STEPPATH
                          ELSE Join(<<home, <<".step">>>>)]

\* init(), lines 290-305: homePath and stepBasePath before the cleanup;
\* fatal is the l.Fatalf of line 297
RawPaths(e) ==
    LET usrOK == ~e.usr.err /\ e.usr.HomeDir # EmptyString
        home == IF e.HOME # EmptyString THEN e.HOME
                ELSE IF usrOK THEN e.usr.HomeDir ELSE EmptyString
    IN  [fatal |-> e.HOME = EmptyString /\ ~usrOK,
         homePath |-> home,
         stepBasePath |-> IF e.STEPPATH # EmptyString THEN e.STEPPATH
                          ELSE Join(<<home, <<".step">>>>)]

\* init(), lines 329-330: the cleanup
ResolvePaths(e) ==
    [fatal |-> RawPaths(e).fatal,
     homePath |-> Clean(RawPaths(e).homePath),
     stepBasePath |-> Clean(RawPaths(e).stepBasePath)]

ErrNoHome == "Error obtaining home directory"
ErrNotADirectory == "File is not a directory"

\* CheckBaseDir ending the process when os.MkdirAll fails
CheckBaseDirMkdirFatal(cur, dir, e) ==
    IF cur # Nil THEN [baseDir |-> dir, err |-> OK]
    ELSE CASE dir = "absent" ->
                [baseDir |-> IF e.mkdir THEN "dir" ELSE "absent",
                 err |-> IF e.mkdir THEN OK ELSE ErrIO]
           [] dir = "staterror" -> [baseDir |-> dir, err |-> ErrIO]
           [] dir = "file" -> [baseDir |-> dir, err |-> ErrNotADirectory]
           [] OTHER -> [baseDir |-> dir, err |-> OK]

\* init(), lines 316-326: without a current context the base path is
\* looked up; when os.Stat fails os.MkdirAll is tried and its result dropped,
\* and a base path that is no directory is fatal
CheckBaseDir(cur, dir, e) ==
    IF cur # Nil THEN [baseDir |-> dir, err |-> OK]
    ELSE CASE dir = "absent" ->
                [baseDir |-> IF e.mkdir THEN "dir" ELSE "absent", err |-> OK]
           [] dir = "staterror" -> [baseDir |-> dir, err |-> OK]
           [] dir = "file" -> [baseDir |-> dir, err |-> ErrNotADirectory]
           [] OTHER -> [baseDir |-> dir, err |-> OK]

\* ============================================ step/config.go package level
\* loadContextMap: json.Unmarshal(b, &ctxMap) into the map built at
\* package initialisation, then the names are set from the keys
loadContextMap(cm) ==
    CASE contextsFile.state = "absent" -> [ctxMap |-> cm, err |-> OK]
      [] contextsFile.state = "unreadable" -> [ctxMap |-> cm, err |-> ErrIO]
      [] contextsFile.state = "malformed" -> [ctxMap |-> cm, err |-> ErrUnmarshalMap]
      [] OTHER -> [ctxMap |-> NameByKey(UnmarshalContexts(contextsFile, cm)), err |-> OK]

\* SwitchCurrentContext: currentCtx, ok = ctxMap[name]
SwitchResult(cm, name) ==
    [currentCtx |-> Lookup(cm, name),
     err |-> IF Has(cm, name) THEN OK ELSE ErrCouldNotLoad]

\* setDefaultCurrentContext
setDefaultCurrentContext(cm, cur) ==
    CASE currentFile.state = "absent" -> [currentCtx |-> cur, err |-> OK]
      [] currentFile.state = "unreadable" -> [currentCtx |-> cur, err |-> ErrIO]
      [] currentFile.state = "malformed" -> [currentCtx |-> cur, err |-> ErrUnmarshalCurrent]
      [] OTHER -> SwitchResult(cm, currentFile.context)

\* func init() of package step: a new process starts; every error is l.Fatal
StepInitResult ==
    LET m == loadContextMap(EmptyMap)
        c == setDefaultCurrentContext(m.ctxMap, Nil)
    IN  IF m.err # OK
        THEN [ctxMap |-> m.ctxMap, currentCtx |-> Nil, err |-> m.err]
        ELSE [ctxMap |-> m.ctxMap, currentCtx |-> c.currentCtx, err |-> c.err]

\* init() as a whole: the home and base paths (lines 290-305), the context
\* map and the current context (r, lines 307-314), the base directory
\* (lines 316-326) and the cleanup; every failure ends the process
InitOutcome(r) ==
    LET p == ResolvePaths(env)
        d == CheckBaseDir(r.currentCtx, baseDir, env)
    IN  IF p.fatal
        THEN [ctxMap |-> EmptyMap, currentCtx |-> Nil, err |-> ErrNoHome,
              homePath |-> EmptyString, stepBasePath |-> EmptyString,
              baseDir |-> baseDir]
        ELSE IF r.err # OK
        THEN [ctxMap |-> r.ctxMap, currentCtx |-> r.currentCtx, err |-> r.err,
              homePath |-> RawPaths(env).homePath,
              stepBasePath |-> RawPaths(env).stepBasePath, baseDir |-> baseDir]
        ELSE IF d.err # OK
        THEN [ctxMap |-> r.ctxMap, currentCtx |-> r.currentCtx, err |-> d.err,
              homePath |-> RawPaths(env).homePath,
              stepBasePath |-> RawPaths(env).stepBasePath, baseDir |-> d.baseDir]
        ELSE [ctxMap |-> r.ctxMap, currentCtx |-> r.currentCtx, err |-> OK,
              homePath |-> p.homePath, stepBasePath |-> p.stepBasePath,
              baseDir |-> d.baseDir]

StepInit ==
    /\ ctxMap' = InitOutcome(StepInitResult).ctxMap
    /\ currentCtx' = InitOutcome(StepInitResult).currentCtx
    /\ homePath' = InitOutcome(StepInitResult).homePath
    /\ stepBasePath' = InitOutcome(StepInitResult).stepBasePath
    /\ baseDir' = InitOutcome(StepInitResult).baseDir
    /\ running' = (InitOutcome(StepInitResult).err = OK)
    /\ last' = Call("init", "", Nil, InitOutcome(StepInitResult).err)
    /\ cfg' = NoCfg
    /\ UNCHANGED <<contextsFile, currentFile, contexts, current, listed, failures, cmds, config, env, procs, prompt, claims>>

\* BasePath
BasePath == stepBasePath

\* Path that does not look at the current context
PathIgnoresCurrent == stepBasePath

\* Path
Path ==
    IF currentCtx = Nil THEN stepBasePath
    ELSE Join(<<stepBasePath, <<"authorities">>, <<Deref(currentCtx).Authority>>>>)

\* ProfilePath
ProfilePath ==
    IF currentCtx = Nil THEN stepBasePath
    ELSE Join(<<stepBasePath, <<"profiles">>, <<Deref(currentCtx).Profile>>>>)

\* IsContextEnabled
IsContextEnabled == MapLen(ctxMap) > 0

\* GetContext
GetContext(name) == Lookup(ctxMap, name)

\* GetCurrentContext
GetCurrentContext == currentCtx

SwitchCurrentContext(name) ==
    /\ running
    /\ currentCtx' = SwitchResult(ctxMap, name).currentCtx
    /\ last' = Call("SwitchCurrentContext", name, Nil, SwitchResult(ctxMap, name).err)
    /\ UNCHANGED <<contextsFile, currentFile, contexts, current, ctxMap, running,
                   listed, failures, cfg, cmds, config, env, baseDir, homePath, stepBasePath, procs, prompt, claims>>

\* WriteCurrentContext
WriteCurrentContextResult(cm, name, wr) ==
    IF Lookup(cm, name) = Nil
    THEN [err |-> ErrNotFound, file |-> currentFile, failed |-> 0]
    ELSE IF ~wr THEN [err |-> ErrIO, file |-> currentFile, failed |-> 1]
    ELSE [err |-> OK, file |-> CurrentJSON(name), failed |-> 0]

WriteCurrentContext(name, wr) ==
    LET r == WriteCurrentContextResult(ctxMap, name, wr)
    IN  /\ running
        /\ failures + r.failed <= MaxWriteFailures
        /\ currentFile' = r.file
        /\ failures' = failures + r.failed
        /\ last' = Call("WriteCurrentContext", name, Nil, r.err)
        /\ UNCHANGED <<contextsFile, contexts, current, ctxMap, currentCtx, running, listed, cfg, cmds, config, env, baseDir, homePath, stepBasePath, procs, prompt, claims>>

\* RemoveContext
RemoveContextResult(cm, name, wr) ==
    IF cm.null
    THEN [ctxMap |-> cm, cfile |-> contextsFile, err |-> ErrNotFound, failed |-> 0]
    ELSE IF ~Has(cm, name)
    THEN [ctxMap |-> cm, cfile |-> contextsFile, err |-> ErrNotFound, failed |-> 0]
    ELSE IF ~wr
    THEN [ctxMap |-> Delete(cm, name), cfile |-> contextsFile, err |-> ErrIO,
          failed |-> 1]
    ELSE [ctxMap |-> Delete(cm, name), cfile |-> MarshalContexts(Delete(cm, name)),
          err |-> OK, failed |-> 0]

RemoveContext(name, wr) ==
    LET r == RemoveContextResult(ctxMap, name, wr)
    IN  /\ running
        /\ failures + r.failed <= MaxWriteFailures
        /\ ctxMap' = r.ctxMap
        /\ contextsFile' = r.cfile
        /\ failures' = failures + r.failed
        /\ last' = Call("RemoveContext", name, Nil, r.err)
        /\ UNCHANGED <<currentFile, contexts, current, currentCtx, running, listed, cfg, cmds, config, env, baseDir, homePath, stepBasePath, procs, prompt, claims>>

\* AddContext
AddContextResult(cm, cur, ctx, wr1, wr2) ==
    LET m == IF cm.null THEN MapOf([k \in {ctx.Name} |-> ctx])
             ELSE Store(cm, ctx.Name, ctx)
        s == WriteCurrentContextResult(m, ctx.Name, wr2)
    IN  IF ~wr1
        THEN [ctxMap |-> m, cfile |-> contextsFile, file |-> currentFile,
              err |-> ErrIO, failed |-> 1]
        ELSE IF cur = Nil
        THEN [ctxMap |-> m, cfile |-> MarshalContexts(m), file |-> s.file,
              err |-> s.err, failed |-> s.failed]
        ELSE [ctxMap |-> m, cfile |-> MarshalContexts(m), file |-> currentFile,
              err |-> OK, failed |-> 0]

AddContext(ctx, wr1, wr2) ==
    LET r == AddContextResult(ctxMap, currentCtx, ctx, wr1, wr2)
    IN  /\ running
        /\ failures + r.failed <= MaxWriteFailures
        /\ ctxMap' = r.ctxMap
        /\ contextsFile' = r.cfile
        /\ currentFile' = r.file
        /\ failures' = failures + r.failed
        /\ last' = Call("AddContext", ctx.Name, Ptr(ctx), r.err)
        /\ UNCHANGED <<contexts, current, currentCtx, running, listed, cfg, cmds, config, env, baseDir, homePath, stepBasePath, procs, prompt, claims>>

\* ================================================ config/config.go package
\* setCurrentContext: a name that is not in the map is printed, not returned
setCurrentContext(cm, cur) ==
    CASE currentFile.state = "absent" -> [currentCtx |-> cur, err |-> OK]
      [] currentFile.state = "unreadable" -> [currentCtx |-> cur, err |-> ErrIO]
      [] currentFile.state = "malformed" -> [currentCtx |-> cur, err |-> ErrUnmarshalCurrent]
      [] OTHER -> [currentCtx |-> Lookup(cm, currentFile.context), err |-> OK]

\* func init() of package config
ConfigInitResult ==
    LET m == loadContextMap(EmptyMap)
        c == setCurrentContext(m.ctxMap, Nil)
    IN  IF m.err # OK
        THEN [ctxMap |-> m.ctxMap, currentCtx |-> Nil, err |-> m.err]
        ELSE [ctxMap |-> m.ctxMap, currentCtx |-> c.currentCtx, err |-> c.err]

ConfigInit ==
    /\ ctxMap' = InitOutcome(ConfigInitResult).ctxMap
    /\ currentCtx' = InitOutcome(ConfigInitResult).currentCtx
    /\ homePath' = InitOutcome(ConfigInitResult).homePath
    /\ stepBasePath' = InitOutcome(ConfigInitResult).stepBasePath
    /\ baseDir' = InitOutcome(ConfigInitResult).baseDir
    /\ running' = (InitOutcome(ConfigInitResult).err = OK)
    /\ last' = Call("config.init", "", Nil, InitOutcome(ConfigInitResult).err)
    /\ UNCHANGED <<contextsFile, currentFile, contexts, current, listed, failures, cfg, cmds, config, env, procs, prompt, claims>>

\* ===================================================== ListAlphabetical
\* The names of the contexts handed to ListAlphabetical, as Go strings: the
\* bytes of each name (ASCII).
ListNames == {"A", "b", "C", "B", "Ab"}
Bytes(name) ==
    CASE name = "A" -> <<65>>
      [] name = "B" -> <<66>>
      [] name = "C" -> <<67>>
      [] name = "b" -> <<98>>
      [] name = "Ab" -> <<65, 98>>
      [] OTHER -> <<>>

\* strings.ToLower on ASCII bytes
ToLower(bs) == [i \in 1..Len(bs) |-> IF bs[i] >= 65 /\ bs[i] <= 90 THEN bs[i] + 32 ELSE bs[i]]

\* s < t on Go strings: bytewise lexicographic order
RECURSIVE StrLess(_, _)
StrLess(s, t) ==
    IF t = <<>> THEN FALSE
    ELSE IF s = <<>> THEN TRUE
    ELSE IF Head(s) # Head(t) THEN Head(s) < Head(t)
    ELSE StrLess(Tail(s), Tail(t))

\* the comparison on the names as they are, upper case before lower case
NameLessCaseSensitive(c, d) == StrLess(Bytes(c.Name), Bytes(d.Name))

\* the comparison handed to the sort: names compared without regard to case
NameLess(c, d) == StrLess(ToLower(Bytes(c.Name)), ToLower(Bytes(d.Name)))

\* the orders in which a range over the map may visit its keys
KeyOrders(cm) ==
    {o \in [1..MapLen(cm) -> DOMAIN cm.entries] :
        \A i, j \in 1..MapLen(cm) : i # j => o[i] # o[j]}

\* ListAlphabetical: the contexts of the map, sorted by name; the order of
\* contexts whose names compare equal is not defined
ListAlphabeticalResults(cm) ==
    {[i \in 1..MapLen(cm) |-> cm.entries[o[i]]] : o \in
        {o \in KeyOrders(cm) :
            \A i, j \in 1..MapLen(cm) :
                i < j => ~NameLess(cm.entries[o[j]], cm.entries[o[i]])}}

ListAlphabetical ==
    /\ \E l \in ListAlphabeticalResults(contexts) : listed' = l
    /\ last' = Call("ListAlphabetical", "", Nil, OK)
    /\ UNCHANGED <<contextsFile, currentFile, contexts, current, ctxMap, currentCtx,
                   running, failures, cfg, cmds, config, env, baseDir, homePath, stepBasePath, procs, prompt, claims>>

\* ==================================================== command/command.go
IgnoreEnvVar == "STEP_IGNORE_ENV_VAR"

ErrUI == "prompt failed"
ErrPanic == "panic"
ErrStat == "stat error"
ErrParsing == "error parsing defaults file"

\* ------------------------------------------------- values of a defaults file
\* json.Unmarshal into map[string]interface{} yields strings, float64s and
\* bools; fmt.Sprintf("%v", v) prints each of them its own way
JString(s) == [t |-> "string", s |-> s, n |-> 0, b |-> FALSE]
JNumber(n) == [t |-> "number", s |-> "", n |-> n, b |-> FALSE]
JBool(b) == [t |-> "bool", s |-> "", n |-> 0, b |-> b]

Sprint(v) ==
    CASE v.t = "string" -> v.s
      [] v.t = "number" -> ToString(v.n)
      [] OTHER -> IF v.b THEN "true" ELSE "false"

\* the value every key of a file has tells the file it was read from
LegacyValue == JBool(TRUE)
AuthorityValue == JString("X")
ProfileValue == JNumber(8443)

\* ----------------------------------------------------------- defaults files
\* config/defaults.json under the base path, the authority path and the
\* profile path. A file is absent, fails os.Stat with another error, passes
\* os.Stat but fails ioutil.ReadFile, holds bytes that are no JSON object,
\* holds JSON null, or holds a JSON object.
DefaultsKeys == {"ca-url", "u", "root", "password-file", "context"}

DFile(state, null, f) == [state |-> state, null |-> null, entries |-> f]
DAbsent == DFile("absent", FALSE, <<>>)
DStatError == DFile("staterror", FALSE, <<>>)
DUnreadable == DFile("unreadable", FALSE, <<>>)
DMalformed == DFile("malformed", FALSE, <<>>)
DNull == DFile("json", TRUE, <<>>)

DefaultsFiles(v) ==
    {DAbsent, DStatError, DUnreadable, DMalformed, DNull}
    \cup {DFile("json", FALSE, [k \in D |-> v]) : D \in SUBSET DefaultsKeys}

\* json.Unmarshal(b, &m) of a file that parses: null makes m nil, an object
\* is added to m, which make() left empty
UnmarshalDefaults(file) == IF file.null THEN NilMap ELSE MapOf(file.entries)

\* ------------------------------------------------- the command line, parsed
\* A flag has the pieces of its Name between commas and its EnvVar. The
\* library has parsed the command line before the Before hook runs: a flag
\* given under one alias is set under all of them, a flag whose environment
\* variable is defined counts as set, and the other flags hold their default.
Flag(name, envVar) == [Name |-> name, EnvVar |-> envVar]

\* strings.TrimSpace on the pieces strings.Split leaves
TrimSpace(s) ==
    CASE s = " u" -> "u"
      [] s = " ca-url" -> "ca-url"
      [] OTHER -> s

Names(f) == [i \in DOMAIN f.Name |-> TrimSpace(f.Name[i])]
NameSet(f) == {Names(f)[i] : i \in DOMAIN f.Name}

FlagLists ==
    {<<Flag(<<"ca-url", " u">>, "STEP_CA_URL"),
       Flag(<<"password-file">>, IgnoreEnvVar),
       Flag(<<"root">>, "STEP_ROOT"),
       Flag(<<"context">>, "STEP_CONTEXT")>>,
     <<Flag(<<"context">>, "STEP_CONTEXT"),
       Flag(<<"root">>, "STEP_ROOT"),
       Flag(<<"password-file">>, IgnoreEnvVar),
       Flag(<<"u", " ca-url">>, "STEP_U")>>}

AllNames(flags) == UNION {NameSet(flags[i]) : i \in DOMAIN flags}
FlagOf(flags, name) == CHOOSE i \in DOMAIN flags : name \in NameSet(flags[i])

\* how a flag got its value before the hook runs. init() unsets the variable
\* IgnoreEnvVar, so no flag bound to it is ever set from the environment.
HowsOf(f) ==
    CASE f.EnvVar = IgnoreEnvVar -> {"unset", "cli"}
      [] "ca-url" \in NameSet(f) -> {"unset", "cli", "env"}
      [] "context" \in NameSet(f) -> {"unset", "cli"}
      [] OTHER -> {"unset"}

Hows(flags) == {h \in [DOMAIN flags -> {"unset", "cli", "env"}] :
                    \A i \in DOMAIN flags : h[i] \in HowsOf(flags[i])}

ParsedValues(flags, how, cv) ==
    [n \in AllNames(flags) |->
        CASE how[FlagOf(flags, n)] = "cli" -> IF n = "context" THEN cv ELSE "U"
          [] how[FlagOf(flags, n)] = "env" -> "E"
          [] OTHER -> ""]

\* the *cli.Context handed to the hook
CliContext(cmd, flags, how, cv) ==
    [cmd |-> cmd, flags |-> flags, how |-> how,
     set |-> {n \in AllNames(flags) : how[FlagOf(flags, n)] # "unset"},
     value |-> ParsedValues(flags, how, cv),
     sets |-> <<>>]

noContextList ==
    <<"ca bootstrap", "ca init", "context list", "context remove", "context select">>

CommandNames ==
    {noContextList[i] : i \in DOMAIN noContextList}
    \cup {"ca certificate", "ca bootstrap-helper"}

\* strings.HasPrefix(fullCommandName, "ca bootstrap-helper")
HasBootstrapHelperPrefix(cmd) == cmd = "ca bootstrap-helper"

CliContexts ==
    UNION {UNION {{CliContext(cmd, flags, how, cv) : cv \in
                        IF \E i \in DOMAIN flags :
                              "context" \in NameSet(flags[i]) /\ how[i] = "cli"
                        THEN CtxNames ELSE {""}} :
                    how \in Hows(flags)} :
            cmd \in CommandNames, flags \in FlagLists}

\* ctx.IsSet(name)
IsSet(ctx, name) == name \in ctx.set
\* ctx.String(name)
String(ctx, name) == IF name \in DOMAIN ctx.value THEN ctx.value[name] ELSE ""
\* ctx.Set(name, value); sets keeps the calls in the order they were made
CtxSet(ctx, name, value) ==
    [ctx EXCEPT !.set = @ \cup {name}, !.value[name] = value,
                !.sets = Append(@, <<name, value>>)]

\* getFlagEnvVar
getFlagEnvVar(f) == f.EnvVar

\* ------------------------------------------------------------ getConfigVars
ErrSelectDefault == "select a default context"

\* ContextChoice that refuses to go on without a current context
ContextChoiceRefuses(ctx, cur, uiOK, sel) ==
    IF IsSet(ctx, "context")
    THEN [err |-> OK, ctxStr |-> String(ctx, "context"), asked |-> FALSE]
    ELSE IF cur # Nil \/ contextsFile.state = "absent"
    THEN [err |-> OK, ctxStr |-> "", asked |-> FALSE]
    ELSE [err |-> ErrSelectDefault, ctxStr |-> "", asked |-> FALSE]

\* ContextChoice that looks at the flag --context only when no context is
\* current
ContextChoiceKeepsCurrent(ctx, cur, uiOK, sel) ==
    IF cur # Nil
    THEN [err |-> OK, ctxStr |-> "", asked |-> FALSE]
    ELSE IF IsSet(ctx, "context")
    THEN [err |-> OK, ctxStr |-> String(ctx, "context"), asked |-> FALSE]
    ELSE IF contextsFile.state = "absent"
    THEN [err |-> OK, ctxStr |-> "", asked |-> FALSE]
    ELSE IF ~uiOK
    THEN [err |-> ErrUI, ctxStr |-> "", asked |-> TRUE]
    ELSE IF MapLen(ctxMap) = 1
    THEN [err |-> OK, asked |-> TRUE,
          ctxStr |-> ctxMap.entries[CHOOSE k \in DOMAIN ctxMap.entries : TRUE].Name]
    ELSE IF sel \in DOMAIN ctxMap.entries
    THEN [err |-> OK, ctxStr |-> ctxMap.entries[sel].Name, asked |-> TRUE]
    ELSE [err |-> ErrPanic, ctxStr |-> "", asked |-> TRUE]

\* lines 86-116: the name of the context to switch to. uiOK tells whether
\* ui.PrintSelected or ui.Select returns without an error, sel is the item
\* ui.Select picks, "" when the list has no item and items[i] is out of range
ContextChoice(ctx, cur, uiOK, sel) ==
    IF IsSet(ctx, "context")
    THEN [err |-> OK, ctxStr |-> String(ctx, "context"), asked |-> FALSE]
    ELSE IF cur # Nil \/ contextsFile.state = "absent"
    THEN [err |-> OK, ctxStr |-> "", asked |-> FALSE]
    ELSE IF ~uiOK
    THEN [err |-> ErrUI, ctxStr |-> "", asked |-> TRUE]
    ELSE IF MapLen(ctxMap) = 1
    THEN [err |-> OK, asked |-> TRUE,
          ctxStr |-> ctxMap.entries[CHOOSE k \in DOMAIN ctxMap.entries : TRUE].Name]
    ELSE IF sel \in DOMAIN ctxMap.entries
    THEN [err |-> OK, ctxStr |-> ctxMap.entries[sel].Name, asked |-> TRUE]
    ELSE [err |-> ErrPanic, ctxStr |-> "", asked |-> TRUE]

\* what ui.Select can pick from the items built from the context map
Selections == IF MapLen(ctxMap) = 0 THEN {""} ELSE DOMAIN ctxMap.entries

\* lines 125-146: the flat file <base>/config/defaults.json; done is a return
LoadLegacy(file) ==
    CASE file.state = "absent" -> [err |-> OK, done |-> TRUE, m |-> NilMap]
      [] file.state = "staterror" -> [err |-> ErrStat, done |-> TRUE, m |-> NilMap]
      [] file.state = "unreadable" -> [err |-> OK, done |-> TRUE, m |-> NilMap]
      [] file.state = "malformed" -> [err |-> ErrParsing, done |-> TRUE, m |-> EmptyMap]
      [] OTHER -> [err |-> OK, done |-> FALSE, m |-> UnmarshalDefaults(file)]

\* LoadAuthority with a missing file being an error
LoadAuthorityMissingFails(file) ==
    CASE file.state = "absent" -> [err |-> ErrStat, done |-> TRUE, m |-> EmptyMap]
      [] file.state = "staterror" -> [err |-> ErrStat, done |-> TRUE, m |-> EmptyMap]
      [] file.state = "unreadable" -> [err |-> ErrIO, done |-> TRUE, m |-> EmptyMap]
      [] file.state = "malformed" -> [err |-> ErrParsing, done |-> TRUE, m |-> EmptyMap]
      [] OTHER -> [err |-> OK, done |-> FALSE, m |-> UnmarshalDefaults(file)]

\* lines 152-169: <step.Path()>/config/defaults.json
LoadAuthority(file) ==
    CASE file.state = "absent" -> [err |-> OK, done |-> FALSE, m |-> EmptyMap]
      [] file.state = "staterror" -> [err |-> ErrStat, done |-> TRUE, m |-> EmptyMap]
      [] file.state = "unreadable" -> [err |-> ErrIO, done |-> TRUE, m |-> EmptyMap]
      [] file.state = "malformed" -> [err |-> ErrParsing, done |-> TRUE, m |-> EmptyMap]
      [] OTHER -> [err |-> OK, done |-> FALSE, m |-> UnmarshalDefaults(file)]

\* lines 171-187: <step.ProfilePath()>/config/defaults.json
LoadProfile(file) ==
    CASE file.state = "absent" -> [err |-> OK, done |-> FALSE, m |-> EmptyMap]
      [] file.state = "staterror" -> [err |-> ErrStat, done |-> TRUE, m |-> EmptyMap]
      [] file.state = "unreadable" -> [err |-> OK, done |-> TRUE, m |-> EmptyMap]
      [] file.state = "malformed" -> [err |-> ErrParsing, done |-> TRUE, m |-> EmptyMap]
      [] OTHER -> [err |-> OK, done |-> FALSE, m |-> UnmarshalDefaults(file)]

\* Merge with the authority's values written over the profile's
MergeAuthorityFirst(authorityMap, profileMap) ==
    IF profileMap.null /\ MapLen(authorityMap) > 0
    THEN [err |-> ErrPanic, m |-> profileMap]
    ELSE [err |-> OK,
          m |-> [null |-> profileMap.null,
                 entries |-> [k \in (DOMAIN authorityMap.entries)
                                     \cup (DOMAIN profileMap.entries) |->
                                IF k \in DOMAIN authorityMap.entries
                                THEN authorityMap.entries[k]
                                ELSE profileMap.entries[k]]]]

\* lines 189-195: the keys of authorityMap that profileMap lacks are assigned
\* into profileMap, which panics when profileMap is nil
Merge(authorityMap, profileMap) ==
    IF profileMap.null /\ MapLen(authorityMap) > 0
    THEN [err |-> ErrPanic, m |-> profileMap]
    ELSE [err |-> OK,
          m |-> [null |-> profileMap.null,
                 entries |-> [k \in (DOMAIN authorityMap.entries)
                                     \cup (DOMAIN profileMap.entries) |->
                                IF k \in DOMAIN profileMap.entries
                                THEN profileMap.entries[k]
                                ELSE authorityMap.entries[k]]]]

attributesBannedFromConfig == <<"context", "profile", "authority">>

\* lines 198-208: one ui.Printf and one delete for each banned key of m
StripBanned(m) ==
    [m |-> [null |-> m.null,
            entries |-> [k \in (DOMAIN m.entries)
                                \ {attributesBannedFromConfig[i] :
                                     i \in DOMAIN attributesBannedFromConfig} |->
                           m.entries[k]]],
     warnings |-> SelectSeq(attributesBannedFromConfig, LAMBDA attr : Has(m, attr))]

\* BindName that does not ask ctx.IsSet
BindNameOverwrites(ctx, m, name) ==
    IF Has(m, name)
    THEN [ctx |-> CtxSet(ctx, name, Sprint(m.entries[name])), stop |-> TRUE]
    ELSE [ctx |-> ctx, stop |-> FALSE]

\* BindName that goes on to the next alias after ctx.Set
BindNameNoBreak(ctx, m, name) ==
    IF IsSet(ctx, name)
    THEN [ctx |-> ctx, stop |-> TRUE]
    ELSE IF Has(m, name)
    THEN [ctx |-> CtxSet(ctx, name, Sprint(m.entries[name])), stop |-> FALSE]
    ELSE [ctx |-> ctx, stop |-> FALSE]

\* lines 217-226: one round of the loop over the aliases; stop is a break
BindName(ctx, m, name) ==
    IF IsSet(ctx, name)
    THEN [ctx |-> ctx, stop |-> TRUE]
    ELSE IF Has(m, name)
    THEN [ctx |-> CtxSet(ctx, name, Sprint(m.entries[name])), stop |-> TRUE]
    ELSE [ctx |-> ctx, stop |-> FALSE]

\* lines 216-227: for _, name := range strings.Split(f.GetName(), ",")
RECURSIVE BindNames(_, _, _, _)
BindNames(ctx, m, f, j) ==
    IF j > Len(f.Name) THEN ctx
    ELSE LET r == BindName(ctx, m, TrimSpace(f.Name[j]))
         IN  IF r.stop THEN r.ctx ELSE BindNames(r.ctx, m, f, j + 1)

\* BindFlag without the test for IgnoreEnvVar
BindFlagNoSkip(ctx, m, f) == BindNames(ctx, m, f, 1)

\* lines 211-227: the body of the loop over the flags
BindFlag(ctx, m, f) ==
    IF getFlagEnvVar(f) = IgnoreEnvVar THEN ctx ELSE BindNames(ctx, m, f, 1)

\* lines 210-228: for _, f := range ctx.Command.Flags
RECURSIVE BindFlags(_, _, _)
BindFlags(ctx, m, i) ==
    IF i > Len(ctx.flags) THEN ctx
    ELSE BindFlags(BindFlag(ctx, m, ctx.flags[i]), m, i + 1)

\* the outcome of getConfigVars: the error returned, the current context
\* before and after, the defaults files and which of them were read, the map
\* after the merge and after the banned keys are deleted, the warnings
\* printed and the flags before and after
Outcome(ctx, err, cur, asked, files, read, merged, stripped, after) ==
    [cmd |-> ctx.cmd, before |-> ctx, err |-> err,
     was |-> currentCtx, currentCtx |-> cur, asked |-> asked,
     lfile |-> files.lfile, afile |-> files.afile, pfile |-> files.pfile,
     read |-> read, merged |-> merged, m |-> stripped.m,
     warnings |-> stripped.warnings, ctx |-> after]

Nothing == [m |-> NilMap, warnings |-> <<>>]

\* lines 198-229, once m is loaded
BindResult(ctx, cur, asked, files, read, m) ==
    Outcome(ctx, OK, cur, asked, files, read, m, StripBanned(m),
            BindFlags(ctx, StripBanned(m).m, 1))

\* lines 124-146
LegacyResult(ctx, asked, files) ==
    IF LoadLegacy(files.lfile).done
    THEN Outcome(ctx, LoadLegacy(files.lfile).err, Nil, asked, files, {"legacy"},
                 NilMap, Nothing, ctx)
    ELSE BindResult(ctx, Nil, asked, files, {"legacy"}, LoadLegacy(files.lfile).m)

\* lines 147-196
ContextResult(ctx, cur, asked, files) ==
    LET a == LoadAuthority(files.afile)
        p == LoadProfile(files.pfile)
        g == Merge(a.m, p.m)
    IN  IF HasBootstrapHelperPrefix(ctx.cmd)
        THEN Outcome(ctx, OK, cur, asked, files, {}, NilMap, Nothing, ctx)
        ELSE IF a.done
        THEN Outcome(ctx, a.err, cur, asked, files, {"authority"},
                     NilMap, Nothing, ctx)
        ELSE IF p.done
        THEN Outcome(ctx, p.err, cur, asked, files, {"authority", "profile"},
                     NilMap, Nothing, ctx)
        ELSE IF g.err # OK
        THEN Outcome(ctx, g.err, cur, asked, files, {"authority", "profile"},
                     NilMap, Nothing, ctx)
        ELSE BindResult(ctx, cur, asked, files, {"authority", "profile"}, g.m)

\* getConfigVars, lines 68-230
getConfigVarsResult(ctx, uiOK, sel, files) ==
    LET c == ContextChoice(ctx, currentCtx, uiOK, sel)
        s == IF c.ctxStr # "" THEN SwitchResult(ctxMap, c.ctxStr)
             ELSE [currentCtx |-> currentCtx, err |-> OK]
    IN  IF \E i \in DOMAIN noContextList : ctx.cmd = noContextList[i]
        THEN Outcome(ctx, OK, currentCtx, FALSE, files, {}, NilMap, Nothing, ctx)
        ELSE IF c.err # OK
        THEN Outcome(ctx, c.err, currentCtx, c.asked, files, {}, NilMap, Nothing, ctx)
        ELSE IF s.err # OK
        THEN Outcome(ctx, s.err, s.currentCtx, c.asked, files, {}, NilMap, Nothing, ctx)
        ELSE IF s.currentCtx = Nil
        THEN LegacyResult(ctx, c.asked, files)
        ELSE ContextResult(ctx, s.currentCtx, c.asked, files)

\* which defaults files a call reads: none, the flat one, or the context's
Route(ctx, uiOK, sel) ==
    LET c == ContextChoice(ctx, currentCtx, uiOK, sel)
        s == IF c.ctxStr # "" THEN SwitchResult(ctxMap, c.ctxStr)
             ELSE [currentCtx |-> currentCtx, err |-> OK]
    IN  IF (\E i \in DOMAIN noContextList : ctx.cmd = noContextList[i])
           \/ c.err # OK \/ s.err # OK
        THEN "none"
        ELSE IF s.currentCtx = Nil THEN "legacy"
        ELSE IF HasBootstrapHelperPrefix(ctx.cmd) THEN "none"
        ELSE "context"

\* whether the call reaches ui.PrintSelected or ui.Select
Asks(ctx) ==
    /\ \A i \in DOMAIN noContextList : ctx.cmd # noContextList[i]
    /\ ~IsSet(ctx, "context")
    /\ currentCtx = Nil
    /\ contextsFile.state # "absent"

\* getConfigVars that saves the context it switches to as the default one
getConfigVarsSavesCurrent ==
    /\ running
    /\ last.op = "init"
    /\ \E ctx \in CliContexts :
       \E uiOK \in IF Asks(ctx) THEN BOOLEAN ELSE {TRUE} :
       \E sel \in IF Asks(ctx) /\ uiOK /\ MapLen(ctxMap) # 1 THEN Selections ELSE {""} :
       \E lfile \in IF Route(ctx, uiOK, sel) = "legacy"
                    THEN DefaultsFiles(LegacyValue) ELSE {DAbsent} :
       \E afile \in IF Route(ctx, uiOK, sel) = "context"
                    THEN DefaultsFiles(AuthorityValue) ELSE {DAbsent} :
       \E pfile \in IF Route(ctx, uiOK, sel) = "context" /\ ~LoadAuthority(afile).done
                    THEN DefaultsFiles(ProfileValue) ELSE {DAbsent} :
          LET r == getConfigVarsResult(ctx, uiOK, sel,
                        [lfile |-> lfile, afile |-> afile, pfile |-> pfile])
          IN  /\ cfg' = r
              /\ currentCtx' = r.currentCtx
              /\ currentFile' = IF r.currentCtx # currentCtx /\ r.currentCtx # Nil
                                THEN CurrentJSON(Deref(r.currentCtx).Name)
                                ELSE currentFile
              /\ last' = Call("getConfigVars", ctx.cmd, Nil, r.err)
    /\ UNCHANGED <<contextsFile, contexts, current, ctxMap, running,
                   listed, failures, cmds, config, env, baseDir, homePath, stepBasePath, procs, prompt, claims>>

\* The Before hook of a registered command; it runs once, after init().
\* The defaults files are read at most once, so their content is an input
\* of the call; a file the call does not read is taken to be absent.
getConfigVars ==
    /\ running
    /\ last.op = "init"
    /\ \E ctx \in CliContexts :
       \E uiOK \in IF Asks(ctx) THEN BOOLEAN ELSE {TRUE} :
       \E sel \in IF Asks(ctx) /\ uiOK /\ MapLen(ctxMap) # 1 THEN Selections ELSE {""} :
       \E lfile \in IF Route(ctx, uiOK, sel) = "legacy"
                    THEN DefaultsFiles(LegacyValue) ELSE {DAbsent} :
       \E afile \in IF Route(ctx, uiOK, sel) = "context"
                    THEN DefaultsFiles(AuthorityValue) ELSE {DAbsent} :
       \E pfile \in IF Route(ctx, uiOK, sel) = "context" /\ ~LoadAuthority(afile).done
                    THEN DefaultsFiles(ProfileValue) ELSE {DAbsent} :
          LET r == getConfigVarsResult(ctx, uiOK, sel,
                        [lfile |-> lfile, afile |-> afile, pfile |-> pfile])
          IN  /\ cfg' = r
              /\ currentCtx' = r.currentCtx
              /\ last' = Call("getConfigVars", ctx.cmd, Nil, r.err)
    /\ UNCHANGED <<contextsFile, currentFile, contexts, current, ctxMap, running,
                   listed, failures, cmds, config, env, baseDir, homePath, stepBasePath, procs, prompt, claims>>

NoCall == Call("", "", Nil, OK)

FilesInit ==
    /\ contextsFile \in ContextsFiles
    /\ currentFile \in CurrentFiles

Init ==
    /\ FilesInit
    /\ contexts = ZeroCtxState.contexts
    /\ current = ZeroCtxState.current
    /\ ctxMap = EmptyMap
    /\ currentCtx = Nil
    /\ running = TRUE
    /\ listed = <<>>
    /\ failures = 0
    /\ cfg = NoCfg
    /\ cmds = <<HelpCommand>>
    /\ claims = NewClaims
    /\ prompt = NoPrompt
    /\ procs = NoProcs
    /\ config = NoConfig
    /\ env = OrdinaryEnv
    /\ baseDir = "dir"
    /\ homePath = IF running THEN ResolvePaths(env).homePath ELSE EmptyString
    /\ stepBasePath = IF running THEN ResolvePaths(env).stepBasePath ELSE EmptyString
    /\ last = NoCall

Next ==
    \/ CsInit
    \/ \E n \in CtxNames : Set(n)
    \/ \E n \in CtxNames, wr \in BOOLEAN : SaveCurrent(n, wr)
    \/ \E c \in Context, wr1 \in BOOLEAN, wr2 \in BOOLEAN : Add(c, wr1, wr2)
    \/ \E n \in CtxNames, wr \in BOOLEAN : Remove(n, wr)

Spec == Init /\ [][Next]_vars

\* the package level API of step/config.go; no process runs before init()
InitLegacy ==
    /\ FilesInit
    /\ contexts = ZeroCtxState.contexts
    /\ current = ZeroCtxState.current
    /\ ctxMap = EmptyMap
    /\ currentCtx = Nil
    /\ running = FALSE
    /\ listed = <<>>
    /\ failures = 0
    /\ cfg = NoCfg
    /\ cmds = <<HelpCommand>>
    /\ claims = NewClaims
    /\ prompt = NoPrompt
    /\ procs = NoProcs
    /\ config = NoConfig
    /\ env = OrdinaryEnv
    /\ baseDir = "dir"
    /\ homePath = IF running THEN ResolvePaths(env).homePath ELSE EmptyString
    /\ stepBasePath = IF running THEN ResolvePaths(env).stepBasePath ELSE EmptyString
    /\ last = NoCall

NextLegacy ==
    \/ StepInit
    \/ \E n \in CtxNames : SwitchCurrentContext(n)
    \/ \E n \in CtxNames, wr \in BOOLEAN : WriteCurrentContext(n, wr)
    \/ \E c \in Context, wr1 \in BOOLEAN, wr2 \in BOOLEAN : AddContext(c, wr1, wr2)
    \/ \E n \in CtxNames, wr \in BOOLEAN : RemoveContext(n, wr)

SpecLegacy == InitLegacy /\ [][NextLegacy]_vars

\* package config: its init() is the only code that touches the state
NextConfig == ConfigInit

SpecConfig == InitLegacy /\ [][NextConfig]_vars

\* ListAlphabetical on a CtxState built, as the tests build it, from a map
\* whose keys need not be the names of its contexts
KeyPool == <<"1", "2", "3", "4", "5">>
ListKeys == {KeyPool[i] : i \in 1..MaxKeys}
ListContexts == {[Name |-> n, Profile |-> "p", Authority |-> "x"] : n \in ListNames}
ListMaps == {MapOf(f) : f \in UNION {[D -> ListContexts] : D \in SUBSET ListKeys}}

InitList ==
    /\ contextsFile = Absent
    /\ currentFile = CurAbsent
    /\ contexts \in ListMaps
    /\ current = Nil
    /\ ctxMap = EmptyMap
    /\ currentCtx = Nil
    /\ running = TRUE
    /\ listed = <<>>
    /\ failures = 0
    /\ cfg = NoCfg
    /\ cmds = <<HelpCommand>>
    /\ claims = NewClaims
    /\ prompt = NoPrompt
    /\ procs = NoProcs
    /\ config = NoConfig
    /\ env = OrdinaryEnv
    /\ baseDir = "dir"
    /\ homePath = IF running THEN ResolvePaths(env).homePath ELSE EmptyString
    /\ stepBasePath = IF running THEN ResolvePaths(env).stepBasePath ELSE EmptyString
    /\ last = NoCall

NextList == ListAlphabetical

SpecList == InitList /\ [][NextList]_vars

\* ----------------------------------------------------------------- Register
\* Names and environment variables are sequences of characters here, so
\* that getEnvVar is computed the way the code computes it.
Lower == <<"a", "b", "c", "d", "e", "f", "g", "h", "i", "j", "k", "l", "m",
           "n", "o", "p", "q", "r", "s", "t", "u", "v", "w", "x", "y", "z">>
Upper == <<"A", "B", "C", "D", "E", "F", "G", "H", "I", "J", "K", "L", "M",
           "N", "O", "P", "Q", "R", "S", "T", "U", "V", "W", "X", "Y", "Z">>

\* strings.Split(name, ",")[0]
RECURSIVE FirstPart(_)
FirstPart(s) ==
    IF s = <<>> \/ Head(s) = "," THEN <<>> ELSE <<Head(s)>> \o FirstPart(Tail(s))

\* strings.TrimSpace
RECURSIVE TrimLeft(_)
TrimLeft(s) == IF s # <<>> /\ Head(s) = " " THEN TrimLeft(Tail(s)) ELSE s
RECURSIVE TrimRight(_)
TrimRight(s) ==
    IF s # <<>> /\ s[Len(s)] = " " THEN TrimRight(SubSeq(s, 1, Len(s) - 1)) ELSE s
TrimSpaceSeq(s) == TrimRight(TrimLeft(s))

\* strings.Replace(name, "-", "_", -1)
ReplaceDashes(s) == [i \in DOMAIN s |-> IF s[i] = "-" THEN "_" ELSE s[i]]

\* strings.ToUpper
ToUpper(s) ==
    [i \in DOMAIN s |->
        IF \E k \in DOMAIN Lower : Lower[k] = s[i]
        THEN Upper[CHOOSE k \in DOMAIN Lower : Lower[k] = s[i]]
        ELSE s[i]]

\* getEnvVar
getEnvVar(name) ==
    <<"S", "T", "E", "P", "_">> \o ToUpper(ReplaceDashes(TrimSpaceSeq(FirstPart(name))))

\* the flag types setEnvVar's type switch has a case for
SwitchedFlagTypes ==
    {"cli.BoolFlag", "cli.BoolTFlag", "cli.DurationFlag", "cli.Float64Flag",
     "cli.GenericFlag", "cli.Int64Flag", "cli.IntFlag", "cli.IntSliceFlag",
     "cli.Int64SliceFlag", "cli.StringFlag", "cli.StringSliceFlag",
     "cli.Uint64Flag", "cli.UintFlag"}

\* a cli.Flag: its dynamic type, its Name and its EnvVar
CliFlag(type, name, envVar) == [Type |-> type, Name |-> name, EnvVar |-> envVar]

\* one round of the loop over c.Flags
setFlagEnvVar(f) ==
    IF f.Type \in SwitchedFlagTypes /\ f.EnvVar = <<>>
    THEN [f EXCEPT !.EnvVar = getEnvVar(f.Name)]
    ELSE f

\* setEnvVar; the caller never passes nil
RECURSIVE setEnvVar(_)
setEnvVar(c) ==
    [Name |-> c.Name,
     Before |-> IF c.Before = "nil" /\ c.Action THEN "getConfigVars" ELSE c.Before,
     Action |-> c.Action,
     Flags |-> [i \in DOMAIN c.Flags |-> setFlagEnvVar(c.Flags[i])],
     Subcommands |-> [i \in DOMAIN c.Subcommands |-> setEnvVar(c.Subcommands[i])]]

\* the flags of a command and of its subcommands at every depth, the
\* command's own first
RECURSIVE Concat(_)
Concat(ss) == IF ss = <<>> THEN <<>> ELSE Head(ss) \o Concat(Tail(ss))
RECURSIVE AllFlags(_)
AllFlags(c) ==
    c.Flags \o Concat([i \in DOMAIN c.Subcommands |-> AllFlags(c.Subcommands[i])])

\* number of Register calls in one behaviour
MaxRegistered == 1
\* number of levels of subcommands below a registered command
MaxDepth == 2

CaUrlU == <<"c", "a", "-", "u", "r", "l", ",", " ", "u">>
Root == <<"r", "o", "o", "t">>
Custom == <<"C", "U", "S", "T", "O", "M">>

\* the flag lists of the commands that get registered
RegisteredFlags ==
    {<<CliFlag("cli.StringFlag", CaUrlU, <<>>)>>,
     <<CliFlag("cli.BoolFlag", Root, Custom)>>,
     <<CliFlag("*cli.StringFlag", Root, <<>>),
       CliFlag("cli.DurationFlag", Root, <<>>)>>}

RECURSIVE Subcommand(_)
Subcommand(depth) ==
    {[Name |-> "sub", Before |-> "nil", Action |-> TRUE, Flags |-> fl,
      Subcommands |-> s] :
        fl \in RegisteredFlags,
        s \in {<<>>} \cup (IF depth = 1 THEN {}
                           ELSE {<<c>> : c \in Subcommand(depth - 1)})}

RegisteredCommands ==
    {[Name |-> "ca", Before |-> b, Action |-> a, Flags |-> fl, Subcommands |-> s] :
        b \in {"nil", "custom"}, a \in BOOLEAN, fl \in RegisteredFlags,
        s \in {<<>>} \cup (IF MaxDepth = 0 THEN {}
                           ELSE {<<c>> : c \in Subcommand(MaxDepth)})}

\* Register
Register(c) ==
    /\ Len(cmds) <= MaxRegistered
    /\ cmds' = Append(cmds, setEnvVar(c))
    /\ last' = Call("Register", c, Nil, OK)
    /\ UNCHANGED <<contextsFile, currentFile, contexts, current, ctxMap, currentCtx,
                   running, listed, failures, cfg, config, env, baseDir, homePath, stepBasePath, procs, prompt, claims>>

\* the Before hook in a process of a program that uses package step
CommandContextsFiles ==
    {Absent, Malformed,
     [state |-> "json", null |-> FALSE, entries |-> <<>>],
     [state |-> "json", null |-> FALSE,
      entries |-> [k \in {"a"} |-> [profile |-> "p", authority |-> "x"]]],
     [state |-> "json", null |-> FALSE,
      entries |-> [k \in {"a", "b"} |->
                     [profile |-> IF k = "a" THEN "p" ELSE "",
                      authority |-> IF k = "a" THEN "x" ELSE "y"]]]}

InitCommand ==
    /\ contextsFile \in CommandContextsFiles
    /\ currentFile \in {CurAbsent, CurrentJSON("a")}
    /\ contexts = ZeroCtxState.contexts
    /\ current = ZeroCtxState.current
    /\ ctxMap = EmptyMap
    /\ currentCtx = Nil
    /\ running = FALSE
    /\ listed = <<>>
    /\ failures = 0
    /\ cfg = NoCfg
    /\ cmds = <<HelpCommand>>
    /\ claims = NewClaims
    /\ prompt = NoPrompt
    /\ procs = NoProcs
    /\ config = NoConfig
    /\ env = OrdinaryEnv
    /\ baseDir = "dir"
    /\ homePath = IF running THEN ResolvePaths(env).homePath ELSE EmptyString
    /\ stepBasePath = IF running THEN ResolvePaths(env).stepBasePath ELSE EmptyString
    /\ last = NoCall

NextCommand ==
    \/ StepInit
    \/ getConfigVars

SpecCommand == InitCommand /\ [][NextCommand]_vars

\* Register, called from the init() functions of the packages that define
\* commands
InitRegister ==
    /\ contextsFile = Absent
    /\ currentFile = CurAbsent
    /\ contexts = ZeroCtxState.contexts
    /\ current = ZeroCtxState.current
    /\ ctxMap = EmptyMap
    /\ currentCtx = Nil
    /\ running = TRUE
    /\ listed = <<>>
    /\ failures = 0
    /\ cfg = NoCfg
    /\ cmds = <<HelpCommand>>
    /\ claims = NewClaims
    /\ prompt = NoPrompt
    /\ procs = NoProcs
    /\ config = NoConfig
    /\ env = OrdinaryEnv
    /\ baseDir = "dir"
    /\ homePath = IF running THEN ResolvePaths(env).homePath ELSE EmptyString
    /\ stepBasePath = IF running THEN ResolvePaths(env).stepBasePath ELSE EmptyString
    /\ last = NoCall

NextRegister == \E c \in RegisteredCommands : Register(c)

SpecRegister == InitRegister /\ [][NextRegister]_vars

\* ================================================================= claims
\* C1 (SpecLegacy): Remove(name) always fails when name equals the current
\* context's name, whatever else the context map holds, and the in-memory
\* context map and the persisted contexts file are left unchanged by the call.
C1_RemoveCurrentRefused ==
    [][(/\ last'.op = "RemoveContext"
        /\ currentCtx # Nil
        /\ Deref(currentCtx).Name = last'.arg)
       => (/\ last'.err # OK
           /\ ctxMap' = ctxMap
           /\ contextsFile' = contextsFile)]_vars

\* C2: Remove(name) fails with "not found" when the context map has no entry
\* for name, the nil map included, and changes neither the in-memory map nor
\* any persisted file.
C2_RemoveAbsentNotFound ==
    [][(last'.op = "Remove" /\ ~Has(contexts, last'.arg))
       => (/\ last'.err = ErrNotFound
           /\ contexts' = contexts
           /\ contextsFile' = contextsFile
           /\ currentFile' = currentFile)]_vars

\* C2 witness: Remove was refused on a nil map while contexts.json exists
\* and holds contexts a rewrite of the file would have lost.
C2_Witness ==
    /\ last.op = "Remove"
    /\ last.err = ErrNotFound
    /\ contexts.null
    /\ contextsFile.state = "json"
    /\ DOMAIN contextsFile.entries # {}

\* C3: after a successful Add(ctx) of a context with non-empty profile and
\* authority, Get(ctx.Name) returns a context with the same profile and
\* authority, and reloading contexts.json with initMap yields an entry under
\* the key ctx.Name with the same profile and authority whose Name is the key.
C3_AddGetRoundTrip ==
    (/\ last.op = "Add"
     /\ last.err = OK
     /\ Deref(last.ctx).Profile # ""
     /\ Deref(last.ctx).Authority # "")
    => LET c == Deref(last.ctx)
           g == Get(c.Name)
           re == initMap(ZeroCtxState)
       IN  /\ g # Nil
           /\ Deref(g).Profile = c.Profile
           /\ Deref(g).Authority = c.Authority
           /\ re.err = OK
           /\ Has(re.contexts, c.Name)
           /\ re.contexts.entries[c.Name].Profile = c.Profile
           /\ re.contexts.entries[c.Name].Authority = c.Authority
           /\ re.contexts.entries[c.Name].Name = c.Name

\* C3 witness: a valid context was added next to another one and persisted.
C3_Witness ==
    /\ last.op = "Add"
    /\ last.err = OK
    /\ Deref(last.ctx).Profile = "p"
    /\ Deref(last.ctx).Authority = "y"
    /\ MapLen(contexts) = 2
    /\ contextsFile = MarshalContexts(contexts)

C5_DanglingPointerIsFatal ==
    (/\ last.op \in {"init", "config.init"}
     /\ currentFile.state = "json"
     /\ ~Has(ctxMap, currentFile.context))
    => (last.err # OK /\ ~running)

\* C6: when neither contexts.json nor current-context.json exists, Init
\* succeeds, the map stays empty, no current context is set and Enabled() is
\* false; and a failing Init is never due to a missing file alone: with
\* contexts.json missing it fails only on an existing current-context.json,
\* with current-context.json missing only on an unusable contexts.json.
C6_InitWithoutFiles ==
    last.op = "Init"
    => (/\ (contextsFile.state = "absent" /\ currentFile.state = "absent")
            => (/\ last.err = OK
                /\ MapLen(contexts) = 0
                /\ current = Nil
                /\ ~Enabled)
        /\ (contextsFile.state = "absent" /\ last.err # OK)
            => currentFile.state # "absent"
        /\ (currentFile.state = "absent" /\ last.err # OK)
            => contextsFile.state \in {"unreadable", "malformed"})

\* C6 witness: Init has run with both files missing.
C6_Witness ==
    /\ last.op = "Init"
    /\ last.err = OK
    /\ contextsFile.state = "absent"
    /\ currentFile.state = "absent"

\* C7 (SpecLegacy): in every reachable state of a running process, contexts
\* are reported enabled if and only if a current context is set or the
\* context map is non-empty.
C7_EnabledIffCurrentOrMap ==
    running => (IsContextEnabled <=> (currentCtx # Nil \/ MapLen(ctxMap) > 0))

\* C8: Set(name) succeeds exactly when name is a key of the context map;
\* after success GetCurrent() is the map's entry for name; when name is
\* absent it fails with "could not load context".
C8_SetSucceedsIffKey ==
    last.op = "Set"
    => (/\ last.err = OK <=> Has(contexts, last.arg)
        /\ Has(contexts, last.arg) => GetCurrent = Ptr(contexts.entries[last.arg])
        /\ ~Has(contexts, last.arg) => last.err = ErrCouldNotLoad)

\* C8 witness: Set switched from one context of the map to another.
C8_Witness ==
    /\ last.op = "Set"
    /\ last.err = OK
    /\ last.arg = "b"
    /\ MapLen(contexts) = 2
    /\ current = Ptr(contexts.entries["b"])
    /\ currentFile = CurrentJSON("a")

C11_ProfileTakesPrecedence ==
    (/\ last.op = "getConfigVars"
     /\ last.err = OK
     /\ cfg.read = {"authority", "profile"}
     /\ cfg.afile.state = "json"
     /\ cfg.pfile.state = "json")
    => (/\ DOMAIN cfg.merged.entries
             = (DOMAIN cfg.afile.entries) \cup (DOMAIN cfg.pfile.entries)
        /\ \A k \in DOMAIN cfg.pfile.entries :
              cfg.merged.entries[k] = cfg.pfile.entries[k]
        /\ \A k \in (DOMAIN cfg.afile.entries) \ (DOMAIN cfg.pfile.entries) :
              cfg.merged.entries[k] = cfg.afile.entries[k]
        /\ \A k \in DOMAIN cfg.m.entries : cfg.m.entries[k] = cfg.merged.entries[k])

\* C11 witness: both files were loaded, the key ca-url is in both of them
\* and the key u in the authority file only.
C11_Witness ==
    /\ last.op = "getConfigVars"
    /\ last.err = OK
    /\ cfg.read = {"authority", "profile"}
    /\ cfg.afile.state = "json"
    /\ cfg.pfile.state = "json"
    /\ DOMAIN cfg.afile.entries = {"ca-url", "u"}
    /\ DOMAIN cfg.pfile.entries = {"ca-url"}
    /\ cfg.m.entries["ca-url"] = ProfileValue
    /\ cfg.m.entries["u"] = AuthorityValue

\* C12 (SpecCommand): when getConfigVars runs with no current context, the
\* flag --context not given, an empty context map and no flat defaults file,
\* it returns nil, its map is empty and no flag is changed.
C12_NothingToLoad ==
    (/\ last.op = "getConfigVars"
     /\ cfg.was = Nil
     /\ ~IsSet(cfg.before, "context")
     /\ MapLen(ctxMap) = 0
     /\ cfg.lfile = DAbsent)
    => (/\ last.err = OK
        /\ MapLen(cfg.m) = 0
        /\ cfg.ctx = cfg.before)

C14_BannedKeysStrippedAndWarned ==
    (last.op = "getConfigVars" /\ last.err = OK)
    => \A a \in DOMAIN attributesBannedFromConfig :
          LET attr == attributesBannedFromConfig[a]
              present ==
                  \/ "legacy" \in cfg.read /\ attr \in DOMAIN cfg.lfile.entries
                  \/ "authority" \in cfg.read /\ attr \in DOMAIN cfg.afile.entries
                  \/ "profile" \in cfg.read /\ attr \in DOMAIN cfg.pfile.entries
          IN  /\ ~Has(cfg.m, attr)
              /\ \A i \in DOMAIN cfg.ctx.sets : cfg.ctx.sets[i][1] # attr
              /\ Cardinality({i \in DOMAIN cfg.warnings : cfg.warnings[i] = attr})
                    = IF present THEN 1 ELSE 0

\* C15 (SpecCommand): a flag given on the command line holds, after
\* getConfigVars, the value the user gave under every one of its aliases,
\* whatever the order of the aliases and whatever the map holds for them;
\* no alias of it is set from the map.
C15_UserValueKept ==
    last.op = "getConfigVars"
    => \A i \in DOMAIN cfg.before.flags :
          cfg.before.how[i] = "cli"
          => \A n \in NameSet(cfg.before.flags[i]) :
                /\ cfg.ctx.value[n] = cfg.before.value[n]
                /\ \A j \in DOMAIN cfg.ctx.sets : cfg.ctx.sets[j][1] # n

\* C15 witness: the user gave the flag u, ca-url; the map has a value for
\* both aliases; the flags were bound and both aliases still hold the
\* user's value.
C15_Witness ==
    /\ last.op = "getConfigVars"
    /\ last.err = OK
    /\ \E i \in DOMAIN cfg.before.flags :
          /\ Names(cfg.before.flags[i]) = <<"u", "ca-url">>
          /\ cfg.before.how[i] = "cli"
    /\ Has(cfg.m, "ca-url")
    /\ Has(cfg.m, "u")
    /\ cfg.ctx.value["ca-url"] = "U"
    /\ cfg.ctx.value["u"] = "U"

\* C16 (SpecCommand): getConfigVars calls ctx.Set for at most one alias of
\* a flag, and once; that alias is the first one, in the order the flag
\* lists them, that has a key in the map, no alias up to it was set before
\* the call, and the value set is the map's value for it as %v prints it.
\* The aliases after it keep the value they had.
C16_FirstAliasWithKeyWins ==
    last.op = "getConfigVars"
    => \A i \in DOMAIN cfg.before.flags :
          LET names == Names(cfg.before.flags[i])
              calls == {j \in DOMAIN cfg.ctx.sets :
                            cfg.ctx.sets[j][1] \in NameSet(cfg.before.flags[i])}
          IN  /\ Cardinality(calls) <= 1
              /\ \A j \in calls :
                    \E a \in DOMAIN names :
                       /\ names[a] = cfg.ctx.sets[j][1]
                       /\ Has(cfg.m, names[a])
                       /\ cfg.ctx.sets[j][2] = Sprint(cfg.m.entries[names[a]])
                       /\ cfg.ctx.value[names[a]] = cfg.ctx.sets[j][2]
                       /\ \A b \in DOMAIN names :
                             /\ b < a => ~Has(cfg.m, names[b])
                             /\ b <= a => ~IsSet(cfg.before, names[b])
                             /\ b > a => cfg.ctx.value[names[b]]
                                           = cfg.before.value[names[b]]

\* C16 witness: the map has a key for both aliases of the unset flag
\* ca-url, u; ca-url was set from the profile's number and u was left alone.
C16_Witness ==
    /\ last.op = "getConfigVars"
    /\ last.err = OK
    /\ \E i \in DOMAIN cfg.before.flags :
          /\ Names(cfg.before.flags[i]) = <<"ca-url", "u">>
          /\ cfg.before.how[i] = "unset"
    /\ Has(cfg.m, "ca-url")
    /\ Has(cfg.m, "u")
    /\ cfg.ctx.value["ca-url"] = "8443"
    /\ cfg.ctx.value["u"] = ""

C18_EveryFlagGetsEnvVar ==
    last.op = "Register"
    => LET pre == AllFlags(last.arg)
           post == AllFlags(cmds[Len(cmds)])
       IN  /\ Len(post) = Len(pre)
           /\ \A i \in DOMAIN pre :
                 post[i].EnvVar =
                    IF pre[i].EnvVar # <<>> THEN pre[i].EnvVar
                    ELSE IF pre[i].Name = CaUrlU
                    THEN <<"S", "T", "E", "P", "_", "C", "A", "_", "U", "R", "L">>
                    ELSE <<"S", "T", "E", "P", "_", "R", "O", "O", "T">>

C20_ReadFailureIsAnError ==
    (/\ last.op = "getConfigVars"
     /\ \/ "legacy" \in cfg.read /\ cfg.lfile.state \in {"staterror", "unreadable"}
        \/ "authority" \in cfg.read /\ cfg.afile.state \in {"staterror", "unreadable"}
        \/ "profile" \in cfg.read /\ cfg.pfile.state \in {"staterror", "unreadable"})
    => last.err # OK

\* ------------------------------------------------- errors and file paths
\* The errors whose message is formatted with the path of the file:
\* errs.FileError(err, file) and errors.Wrapf(err, "error parsing %s", file).
\* errors.Wrap(err, "error unmarshaling context map") and
\* errors.Wrap(err, "error unmarshaling current context") take no path.
WithFilePath == {ErrIO, ErrParsing}

\* C21 (Spec): when Init finds a contexts file or a current-context file
\* that is not valid JSON, it returns an error whose message holds the path
\* of that file.
C21_ParseErrorNamesFile ==
    (/\ last.op = "Init"
     /\ \/ contextsFile.state = "malformed"
        \/ contextsFile.state \in {"absent", "json"} /\ currentFile.state = "malformed")
    => (last.err # OK /\ last.err \in WithFilePath)

\* ============================ step/context.go, Context.Load and CtxState.load
\* One round of the loop of Context.Load over c.DefaultsFile() and
\* c.ProfileDefaultsFile(): a missing file breaks out of the loop, a failing
\* os.Stat, ioutil.ReadFile or json.Unmarshal returns, and the values of a
\* file that parses are stored in c.Config, which nothing has made.
LoadFile(Config, file) ==
    CASE file.state = "absent" -> [Config |-> Config, err |-> OK, stop |-> TRUE]
      [] file.state = "staterror" -> [Config |-> Config, err |-> ErrStat, stop |-> TRUE]
      [] file.state = "unreadable" -> [Config |-> Config, err |-> ErrIO, stop |-> TRUE]
      [] file.state = "malformed" -> [Config |-> Config, err |-> ErrParsing, stop |-> TRUE]
      [] OTHER ->
            IF Config.null /\ MapLen(UnmarshalDefaults(file)) > 0
            THEN [Config |-> Config, err |-> ErrPanic, stop |-> TRUE]
            ELSE [Config |-> [null |-> Config.null,
                              entries |-> [k \in (DOMAIN Config.entries)
                                                  \cup (DOMAIN file.entries) |->
                                             IF k \in DOMAIN file.entries
                                             THEN file.entries[k]
                                             ELSE Config.entries[k]]],
                  err |-> OK, stop |-> FALSE]

\* Context.Load. The loop over attributesBannedFromConfig deletes from m,
\* which the function does not declare: deletes tells whether c.Config loses
\* the banned keys.
Load(Config, afile, pfile, deletes) ==
    LET a == LoadFile(Config, afile)
        p == IF a.stop THEN a ELSE LoadFile(a.Config, pfile)
    IN  IF p.err # OK
        THEN [Config |-> p.Config, err |-> p.err]
        ELSE [Config |-> IF deletes THEN StripBanned(p.Config).m ELSE p.Config,
              err |-> OK]

\* CtxState.load: cs.GetCurrent().Load() when contexts are enabled, and an
\* empty else branch. With a context map and no current context the receiver
\* of Load is nil and c.Authority is a nil dereference.
loadResult(afile, pfile, deletes) ==
    IF Enabled
    THEN IF GetCurrent = Nil
         THEN [Config |-> config.current, err |-> ErrPanic]
         ELSE Load(config.current, afile, pfile, deletes)
    ELSE [Config |-> config.current, err |-> OK]

load ==
    /\ last.op # "load"
    /\ \E afile \in IF Enabled /\ GetCurrent # Nil
                    THEN DefaultsFiles(AuthorityValue) ELSE {DAbsent} :
       \E pfile \in IF Enabled /\ GetCurrent # Nil /\ ~LoadFile(config.current, afile).stop
                    THEN DefaultsFiles(ProfileValue) ELSE {DAbsent} :
       \E deletes \in BOOLEAN :
          LET r == loadResult(afile, pfile, deletes)
          IN  /\ config' = [cs |-> config.cs, current |-> r.Config]
              /\ last' = [op |-> "load", arg |-> "", ctx |-> current, err |-> r.err,
                          afile |-> afile, pfile |-> pfile]
    /\ UNCHANGED <<contextsFile, currentFile, contexts, current, ctxMap, currentCtx,
                   running, listed, failures, cfg, cmds, env, baseDir, homePath, stepBasePath, procs, prompt, claims>>

\* A CtxState as Init leaves it, or as a caller makes it: a map and a current
\* pointer that is nil or one of the map's contexts.
LoadContexts ==
    {NilMap} \cup {NameByKey(UnmarshalContexts(f, EmptyMap)) : f \in ContextsJSONs}

InitLoad ==
    /\ contextsFile = Absent
    /\ currentFile = CurAbsent
    /\ contexts \in LoadContexts
    /\ current \in {Nil} \cup {Lookup(contexts, n) : n \in DOMAIN contexts.entries}
    /\ ctxMap = EmptyMap
    /\ currentCtx = Nil
    /\ running = TRUE
    /\ listed = <<>>
    /\ failures = 0
    /\ cfg = NoCfg
    /\ cmds = <<HelpCommand>>
    /\ claims = NewClaims
    /\ prompt = NoPrompt
    /\ procs = NoProcs
    /\ config = NoConfig
    /\ env = OrdinaryEnv
    /\ baseDir = "dir"
    /\ homePath = IF running THEN ResolvePaths(env).homePath ELSE EmptyString
    /\ stepBasePath = IF running THEN ResolvePaths(env).stepBasePath ELSE EmptyString
    /\ last = NoCall

NextLoad == load

SpecLoad == InitLoad /\ [][NextLoad]_vars

\* C22 (SpecLoad): load() on a state with a current context returns nil with
\* the values of that context's defaults files in the current context's
\* Config and an empty cs.config; load() on a state without current context
\* returns nil with cs.config loaded and the current context still unset.
C22_LoadFillsCurrentOrStateConfig ==
    last.op = "load"
    => IF last.ctx # Nil
       THEN (last.afile.state = "json" /\ last.pfile.state \in {"absent", "json"})
            => (/\ last.err = OK
                /\ DOMAIN StripBanned(UnmarshalDefaults(last.afile)).m.entries
                     \subseteq DOMAIN config.current.entries
                /\ MapLen(config.cs) = 0)
       ELSE /\ last.err = OK
            /\ ~config.cs.null
            /\ current = Nil

\* C23 as stated (SpecCommand): a call of getConfigVars leaves the two
\* persisted files, the process-wide context map and the current-context
\* pointer as they were.
C23_NoSideEffectAtAll ==
    [][last'.op = "getConfigVars"
       => (/\ contextsFile' = contextsFile
           /\ currentFile' = currentFile
           /\ failures' = failures
           /\ ctxMap' = ctxMap
           /\ currentCtx' = currentCtx)]_vars

\* C23 (SpecCommand): a call of getConfigVars writes no file and leaves the
\* process-wide context map as it was; the in-memory current-context pointer
\* changes only to the result of looking up the name given with --context,
\* or, when no context was current, to a context of the map chosen at the
\* prompt.
C23_OnlyPointerInMemoryMoves ==
    [][last'.op = "getConfigVars"
       => (/\ contextsFile' = contextsFile
           /\ currentFile' = currentFile
           /\ failures' = failures
           /\ ctxMap' = ctxMap
           /\ currentCtx' # currentCtx
              => \/ /\ IsSet(cfg'.before, "context")
                    /\ currentCtx' = Lookup(ctxMap, String(cfg'.before, "context"))
                 \/ /\ ~IsSet(cfg'.before, "context")
                    /\ currentCtx = Nil
                    /\ cfg'.asked
                    /\ currentCtx' \in {Lookup(ctxMap, n) : n \in DOMAIN ctxMap.entries})]_vars

\* C23 witness: a call given --context bound a flag from the defaults files
\* and returned nil with another current context than before.
C23_Witness ==
    /\ last.op = "getConfigVars"
    /\ last.err = OK
    /\ IsSet(cfg.before, "context")
    /\ cfg.was # Nil
    /\ cfg.was # currentCtx
    /\ cfg.ctx.sets # <<>>

\* ------------------------------------------------ init() and the two paths
\* A process starts in any of the environments, with any state of the base
\* path on disk, and with context files that load or do not.
PathContextsFiles ==
    {Absent, Malformed,
     [state |-> "json", null |-> FALSE,
      entries |-> [n \in {"a"} |-> [profile |-> "p", authority |-> "x"]]],
     [state |-> "json", null |-> FALSE,
      entries |-> [n \in {"a", "b"} |->
                     IF n = "a" THEN [profile |-> "p", authority |-> "x"]
                     ELSE [profile |-> "", authority |-> "y"]]]}

InitPath ==
    /\ contextsFile \in PathContextsFiles
    /\ currentFile \in {CurAbsent, CurrentJSON("a")}
    /\ contexts = ZeroCtxState.contexts
    /\ current = ZeroCtxState.current
    /\ ctxMap = EmptyMap
    /\ currentCtx = Nil
    /\ running = FALSE
    /\ listed = <<>>
    /\ failures = 0
    /\ cfg = NoCfg
    /\ cmds = <<HelpCommand>>
    /\ claims = NewClaims
    /\ prompt = NoPrompt
    /\ procs = NoProcs
    /\ config = NoConfig
    /\ env \in Envs
    /\ baseDir \in BaseDirs
    /\ homePath = EmptyString
    /\ stepBasePath = EmptyString
    /\ last = NoCall

NextPath ==
    \/ StepInit
    \/ \E n \in CtxNames : SwitchCurrentContext(n)

SpecPath == InitPath /\ [][NextPath]_vars

\* the home directory init() settles on: HOME, else the user's
HomeOf(e) == IF e.HOME # EmptyString THEN e.HOME ELSE e.usr.HomeDir

\* C24 as stated (SpecPath): once init() has succeeded the base path is the
\* value of STEPPATH when that is non-empty and <home>/.step otherwise.
C24_BasePathIsTheVariable ==
    running
    => stepBasePath = IF env.STEPPATH # EmptyString THEN env.STEPPATH
                      ELSE Join(<<HomeOf(env), <<".step">>>>)

\* C24 (SpecPath): once init() has succeeded the base path is the cleaned
\* value of STEPPATH when that is non-empty and <home>/.step otherwise, and
\* the home path is the cleaned value of HOME when that is non-empty and of
\* the user's home directory otherwise.
C24_BasePathIsCleaned ==
    running
    => (/\ stepBasePath = IF env.STEPPATH # EmptyString THEN Clean(env.STEPPATH)
                          ELSE Join(<<HomeOf(env), <<".step">>>>)
        /\ homePath = Clean(HomeOf(env)))

\* C24 witness: init() has succeeded with STEPPATH=/s/../t/./ and an empty
\* HOME; the base path is /t and the home path is the user's.
C24_Witness ==
    /\ running
    /\ last.op = "init"
    /\ env.STEPPATH = <<"", "s", "..", "t", ".", "">>
    /\ env.HOME = EmptyString
    /\ stepBasePath = <<"", "t">>
    /\ homePath = <<"", "root">>

\* C25 as stated (SpecPath): when the context files load, init() ends the
\* process only when no home directory can be determined.
C25_OnlyHomeIsFatal ==
    (last.op = "init" /\ StepInitResult.err = OK /\ last.err # OK)
    => ResolvePaths(env).fatal

\* C25 (SpecPath): init() ends the process exactly when no home directory
\* can be determined, when the contexts file or the current-context file
\* fails to load, or when no context is current and the base path exists but
\* is not a directory; a base directory that cannot be made is not fatal.
C25_FatalCases ==
    last.op = "init"
    => (last.err # OK
        <=> \/ env.HOME = EmptyString /\ (env.usr.err \/ env.usr.HomeDir = EmptyString)
            \/ StepInitResult.err # OK
            \/ StepInitResult.currentCtx = Nil /\ baseDir = "file")

\* C25 witness: init() has succeeded although the base directory is missing
\* and could not be made.
C25_Witness ==
    /\ last.op = "init"
    /\ last.err = OK
    /\ running
    /\ ~env.mkdir
    /\ baseDir = "absent"

\* ==================== two processes over one contexts.json, step/context.go
MaxOps == 1

\* Init in process p: its own CtxState is filled from the files as they are
ProcInit(p) ==
    /\ ~procs[p].started
    /\ procs' = [procs EXCEPT ![p] =
                    [contexts |-> InitResult.contexts, current |-> InitResult.current,
                     started |-> InitResult.err = OK, loaded |-> contextsFile,
                     ops |-> <<>>]]
    /\ last' = [op |-> "Init", arg |-> "", ctx |-> Nil, err |-> InitResult.err,
                proc |-> p]
    /\ UNCHANGED <<contextsFile, currentFile, contexts, current, ctxMap, currentCtx,
                   running, listed, failures, cfg, cmds, config, env, baseDir,
                   homePath, stepBasePath, prompt, claims>>

\* Add in process p: its in-memory map is changed and written out whole
ProcAdd(p, ctx, wr1, wr2) ==
    LET r == AddResult(procs[p].contexts, procs[p].current, ctx, wr1, wr2)
    IN  /\ procs[p].started
        /\ Len(procs[p].ops) < MaxOps
        /\ failures + r.failed <= MaxWriteFailures
        /\ procs' = [procs EXCEPT ![p].contexts = r.contexts,
                                  ![p].ops = Append(@, [op |-> "Add", arg |-> ctx.Name,
                                                        err |-> r.err,
                                                        failed |-> r.failed])]
        /\ contextsFile' = r.cfile
        /\ currentFile' = r.file
        /\ failures' = failures + r.failed
        /\ last' = [op |-> "Add", arg |-> ctx.Name, ctx |-> Ptr(ctx), err |-> r.err,
                    proc |-> p]
        /\ UNCHANGED <<contexts, current, ctxMap, currentCtx, running, listed, cfg,
                       cmds, config, env, baseDir, homePath, stepBasePath, prompt, claims>>

\* Remove in process p
ProcRemove(p, name, wr) ==
    LET r == RemoveResult(procs[p].contexts, procs[p].current, name, wr)
    IN  /\ procs[p].started
        /\ Len(procs[p].ops) < MaxOps
        /\ failures + r.failed <= MaxWriteFailures
        /\ procs' = [procs EXCEPT ![p].contexts = r.contexts,
                                  ![p].ops = Append(@, [op |-> "Remove", arg |-> name,
                                                        err |-> r.err,
                                                        failed |-> r.failed])]
        /\ contextsFile' = r.cfile
        /\ failures' = failures + r.failed
        /\ last' = [op |-> "Remove", arg |-> name, ctx |-> Nil, err |-> r.err,
                    proc |-> p]
        /\ UNCHANGED <<currentFile, contexts, current, ctxMap, currentCtx, running,
                       listed, cfg, cmds, config, env, baseDir, homePath,
                       stepBasePath, prompt, claims>>

InitRace ==
    /\ contextsFile \in PathContextsFiles
                       \cup {[state |-> "json", null |-> FALSE, entries |-> <<>>]}
    /\ currentFile \in {CurAbsent, CurrentJSON("a")}
    /\ contexts = ZeroCtxState.contexts
    /\ current = ZeroCtxState.current
    /\ ctxMap = EmptyMap
    /\ currentCtx = Nil
    /\ running = TRUE
    /\ listed = <<>>
    /\ failures = 0
    /\ cfg = NoCfg
    /\ cmds = <<HelpCommand>>
    /\ claims = NewClaims
    /\ prompt = NoPrompt
    /\ config = NoConfig
    /\ env = OrdinaryEnv
    /\ baseDir = "dir"
    /\ homePath = ResolvePaths(env).homePath
    /\ stepBasePath = ResolvePaths(env).stepBasePath
    /\ procs = NoProcs
    /\ last = NoCall

\* the contexts the processes add
AddedContexts == {c \in Context : c.Authority = "x"}

NextRace ==
    \/ \E p \in Procs : ProcInit(p)
    \/ \E p \in Procs, c \in AddedContexts, wr1 \in BOOLEAN, wr2 \in BOOLEAN :
          ProcAdd(p, c, wr1, wr2)
    \/ \E p \in Procs, n \in CtxNames, wr \in BOOLEAN : ProcRemove(p, n, wr)

SpecRace == InitRace /\ [][NextRace]_vars

\* the entry of a contexts file under a name, if any
EntryOf(file, name) ==
    IF name \in DOMAIN file.entries THEN <<file.entries[name]>> ELSE <<>>

\* C26 (SpecRace): when two processes have loaded the same contexts file and
\* each has then done one Add or Remove, of different contexts and without
\* error, the contexts file is the whole map of the process that wrote last,
\* and under the name the other process added or removed it holds what the
\* file held when they loaded it; an Add whose writes succeed returns nil
\* whatever another process has written meanwhile.
C26_LastWriterWins ==
    /\ \A p \in Procs : \A q \in Procs \ {p} :
          (/\ procs[p].started /\ procs[q].started
           /\ procs[p].loaded = procs[q].loaded
           /\ Len(procs[p].ops) = 1 /\ Len(procs[q].ops) = 1
           /\ procs[p].ops[1].err = OK /\ procs[q].ops[1].err = OK
           /\ procs[p].ops[1].arg # procs[q].ops[1].arg
           /\ last.op \in {"Add", "Remove"}
           /\ last.proc = q)
          => (/\ contextsFile = MarshalContexts(procs[q].contexts)
              /\ EntryOf(contextsFile, procs[p].ops[1].arg)
                   = EntryOf(procs[p].loaded, procs[p].ops[1].arg))
    /\ \A p \in Procs : \A i \in DOMAIN procs[p].ops :
          (procs[p].ops[i].op = "Add" /\ procs[p].ops[i].failed = 0)
          => procs[p].ops[i].err = OK

\* C26 witness: both processes loaded a contexts file without contexts, the
\* first added a, the second added b, both got nil, and the file holds b only.
C26_Witness ==
    /\ procs[1].started /\ procs[2].started
    /\ procs[1].loaded = procs[2].loaded
    /\ procs[1].ops = <<[op |-> "Add", arg |-> "a", err |-> OK, failed |-> 0]>>
    /\ procs[2].ops = <<[op |-> "Add", arg |-> "b", err |-> OK, failed |-> 0]>>
    /\ last.op = "Add" /\ last.proc = 2
    /\ DOMAIN contextsFile.entries = {"b"}
    /\ Has(procs[1].contexts, "a")

\* =========================================================== Context.Validate
ErrNilContext == "context cannot be nil"
ErrEmptyAuthority == "context cannot have an empty authority value"
ErrEmptyProfile == "context cannot have an empty profile value"

\* the contexts handed to Validate: nil, or any name, profile and authority,
\* empty ones included
ValidatedContexts ==
    {Nil} \cup {Ptr([Name |-> n, Profile |-> p, Authority |-> a]) :
                  n \in {"", "a", "b", "c", "d"},
                  p \in {"", "p", "q", "r"},
                  a \in {"", "x", "y", "z", "foo"}}

\* Validate looking at the profile before the authority
ValidateResultProfileFirst(c) ==
    IF c = Nil THEN ErrNilContext
    ELSE IF Deref(c).Profile = "" THEN ErrEmptyProfile
    ELSE IF Deref(c).Authority = "" THEN ErrEmptyAuthority
    ELSE OK

\* Validate: the error for the context c
ValidateResult(c) ==
    IF c = Nil THEN ErrNilContext
    ELSE IF Deref(c).Authority = "" THEN ErrEmptyAuthority
    ELSE IF Deref(c).Profile = "" THEN ErrEmptyProfile
    ELSE OK

Validate(c) ==
    /\ last' = Call("Validate", "", c, ValidateResult(c))
    /\ UNCHANGED <<contextsFile, currentFile, contexts, current, ctxMap, currentCtx,
                   running, listed, failures, cfg, cmds, config, env, baseDir,
                   homePath, stepBasePath, procs, prompt, claims>>

NextValidate == \E c \in ValidatedContexts : Validate(c)

SpecValidate == Init /\ [][NextValidate]_vars

\* C27 (SpecValidate): Validate returns "context cannot be nil" for a nil
\* context, else "context cannot have an empty authority value" for an empty
\* authority, else "context cannot have an empty profile value" for an empty
\* profile, and nil when both are non-empty.
C27_ValidateChecksInOrder ==
    last.op = "Validate"
    => (/\ last.ctx = Nil => last.err = ErrNilContext
        /\ (last.ctx # Nil /\ Deref(last.ctx).Authority = "")
           => last.err = ErrEmptyAuthority
        /\ (last.ctx # Nil /\ Deref(last.ctx).Authority # ""
            /\ Deref(last.ctx).Profile = "")
           => last.err = ErrEmptyProfile
        /\ (last.ctx # Nil /\ Deref(last.ctx).Authority # ""
            /\ Deref(last.ctx).Profile # "")
           => last.err = OK)

\* C27 witness: Validate of a context with neither authority nor profile
\* reported the authority.
C27_Witness ==
    /\ last.op = "Validate"
    /\ last.ctx # Nil
    /\ Deref(last.ctx).Authority = ""
    /\ Deref(last.ctx).Profile = ""
    /\ last.err = ErrEmptyAuthority

\* C28 (SpecPath): in a process that init() has set up, Path() is the base
\* path when no context is current and <base>/authorities/<authority of the
\* current context> otherwise, ProfilePath() is the base path or
\* <base>/profiles/<profile of the current context>, and after a successful
\* SwitchCurrentContext(name) both are those of the context the map holds
\* under name.
C28_PathsFollowCurrentContext ==
    [][running'
       => (/\ currentCtx' = Nil
              => (Path' = BasePath' /\ ProfilePath' = BasePath')
           /\ currentCtx' # Nil
              => (/\ Path' = Join(<<BasePath', <<"authorities">>,
                                    <<Deref(currentCtx').Authority>>>>)
                  /\ ProfilePath' = Join(<<BasePath', <<"profiles">>,
                                           <<Deref(currentCtx').Profile>>>>))
           /\ (last'.op = "SwitchCurrentContext" /\ last'.err = OK)
              => (/\ Path' = Join(<<BasePath, <<"authorities">>,
                                    <<ctxMap.entries[last'.arg].Authority>>>>)
                  /\ ProfilePath' = Join(<<BasePath, <<"profiles">>,
                                           <<ctxMap.entries[last'.arg].Profile>>>>)))]_vars

\* C28 witness: with STEPPATH=/s/ and a as the stored current context, the
\* process switched to b, whose authority is y and whose profile is empty.
C28_Witness ==
    /\ running
    /\ last.op = "SwitchCurrentContext"
    /\ last.arg = "b"
    /\ last.err = OK
    /\ currentFile = CurrentJSON("a")
    /\ env.STEPPATH = <<"", "s", "">>
    /\ Path = <<"", "s", "authorities", "y">>
    /\ ProfilePath = <<"", "s", "profiles">>

\* ================================================================ ui.runPrompt
\* unicode.IsSpace, for the characters used here
WhiteSpace == {" ", "\t", "\n"}

\* strings.TrimSpace and the removal of trailing white space, on strings as
\* sequences of characters
RECURSIVE TrimLeftSpace(_)
TrimLeftSpace(s) ==
    IF s # <<>> /\ Head(s) \in WhiteSpace THEN TrimLeftSpace(Tail(s)) ELSE s
RECURSIVE TrimRightSpace(_)
TrimRightSpace(s) ==
    IF s # <<>> /\ s[Len(s)] \in WhiteSpace
    THEN TrimRightSpace(SubSeq(s, 1, Len(s) - 1)) ELSE s
TrimBothSpace(s) == TrimRightSpace(TrimLeftSpace(s))

MaxPrompts == 3

\* what the user may type at one prompt
Answers ==
    {<<>>, <<"a">>, <<"a", " ">>, <<" ", "a">>, <<"a", "a">>, <<"a", "a", "\t">>,
     <<"a", " ", "a">>}

\* options.minLength
MinLengths == {-1, 0, 1, 2, 3}

RECURSIVE SeqsUpTo(_, _)
SeqsUpTo(S, n) ==
    IF n = 0 THEN {<<>>}
    ELSE SeqsUpTo(S, n - 1)
         \cup {Append(s, x) : s \in {t \in SeqsUpTo(S, n - 1) : Len(t) = n - 1}, x \in S}

ErrPrompt == "prompt-error"

\* a call of runPrompt(promptRun, &options{minLength: n}): input holds the
\* answers promptRun gives, and its call number errAt, if any, returns an error
Prompts ==
    {[minLength |-> n, input |-> in, errAt |-> e, calls |-> 0, pc |-> "running",
      val |-> <<>>, err |-> OK] :
        n \in MinLengths, in \in SeqsUpTo(Answers, MaxPrompts) \ {<<>>},
        e \in 0 .. MaxPrompts}

\* One round of runPrompt that returns the answer as it was typed
promptRoundNoTrim(p) ==
    LET k == p.calls + 1
        value == p.input[k]
    IN  IF p.errAt = k
        THEN [p EXCEPT !.calls = k, !.pc = "done", !.err = ErrPrompt]
        ELSE IF p.minLength > 0 /\ Len(TrimBothSpace(value)) < p.minLength
        THEN [p EXCEPT !.calls = k]
        ELSE [p EXCEPT !.calls = k, !.pc = "done", !.val = value]

\* One round of the loop of runPrompt: promptRun is called; its error ends
\* the call; an answer shorter than minLength once trimmed is asked again;
\* any other answer is returned without its trailing white space
promptRound(p) ==
    LET k == p.calls + 1
        value == p.input[k]
    IN  IF p.errAt = k
        THEN [p EXCEPT !.calls = k, !.pc = "done", !.err = ErrPrompt]
        ELSE IF p.minLength > 0 /\ Len(TrimBothSpace(value)) < p.minLength
        THEN [p EXCEPT !.calls = k]
        ELSE [p EXCEPT !.calls = k, !.pc = "done", !.val = TrimRightSpace(value)]

runPrompt ==
    /\ prompt.pc = "running"
    /\ prompt.calls < Len(prompt.input)
    /\ prompt' = promptRound(prompt)
    /\ last' = Call("runPrompt", "", Nil, promptRound(prompt).err)
    /\ UNCHANGED <<contextsFile, currentFile, contexts, current, ctxMap, currentCtx,
                   running, listed, failures, cfg, cmds, config, env, baseDir,
                   homePath, stepBasePath, procs, claims>>

InitPrompt ==
    /\ contextsFile = Absent
    /\ currentFile = CurAbsent
    /\ contexts = ZeroCtxState.contexts
    /\ current = ZeroCtxState.current
    /\ ctxMap = EmptyMap
    /\ currentCtx = Nil
    /\ running = TRUE
    /\ listed = <<>>
    /\ failures = 0
    /\ cfg = NoCfg
    /\ cmds = <<HelpCommand>>
    /\ claims = NewClaims
    /\ config = NoConfig
    /\ env = OrdinaryEnv
    /\ baseDir = "dir"
    /\ homePath = ResolvePaths(env).homePath
    /\ stepBasePath = ResolvePaths(env).stepBasePath
    /\ procs = NoProcs
    /\ prompt \in Prompts
    /\ last = NoCall

NextPrompt == runPrompt

SpecPrompt == InitPrompt /\ [][NextPrompt]_vars

\* runPrompt does not stop between two rounds: while promptRun has an answer
\* to give, the loop calls it
SpecPromptLive == SpecPrompt /\ WF_vars(runPrompt)

\* whether an answer is long enough for the minimum length n
LongEnough(value, n) == n <= 0 \/ Len(TrimBothSpace(value)) >= n

\* the number of the first call of promptRun that ends runPrompt: the first
\* answer that is long enough or the call that fails; 0 when there is none
FirstEnding(p) ==
    LET E == {k \in DOMAIN p.input : p.errAt = k \/ LongEnough(p.input[k], p.minLength)}
    IN  IF E = {} THEN 0 ELSE CHOOSE k \in E : \A j \in E : k <= j

\* C29, the states: runPrompt has called promptRun once for every answer
\* that was too short and not once more; when it has returned, the last call
\* is the first that failed or gave an answer long enough, and the value is
\* that answer without trailing white space, or an error if the call failed.
C29_Rounds ==
    /\ \A k \in 1 .. prompt.calls :
          k < prompt.calls \/ prompt.pc = "running"
          => (prompt.errAt # k /\ ~LongEnough(prompt.input[k], prompt.minLength))
    /\ prompt.pc = "done" /\ prompt.input # <<>>
       => (/\ prompt.calls = FirstEnding(prompt)
           /\ IF prompt.errAt = prompt.calls
              THEN prompt.err # OK
              ELSE /\ prompt.err = OK
                   /\ prompt.val = TrimRightSpace(prompt.input[prompt.calls])
                   /\ LongEnough(prompt.val, prompt.minLength))
    /\ (prompt.minLength <= 0 /\ prompt.calls > 0) => prompt.calls = 1

\* C29 (SpecPromptLive): runPrompt with minimum length n calls the prompt
\* function again after every answer that is too short, and returns the first
\* answer whose trimmed length is at least n, without its trailing white
\* space (the first answer when n <= 0), or an error, without asking again,
\* when the prompt function fails; and it does return when such an answer
\* or failure comes.
C29_ReturnsFirstLongEnough ==
    /\ []C29_Rounds
    /\ (FirstEnding(prompt) # 0) ~> (prompt.pc = "done")

\* C29 witness: with minimum length 2 the answers "a" and " a" were asked
\* again and the third answer, "aa" followed by a tab, was returned as "aa".
C29_Witness ==
    /\ prompt.pc = "done"
    /\ prompt.minLength = 2
    /\ prompt.input = << <<"a">>, <<" ", "a">>, <<"a", "a", "\t">> >>
    /\ prompt.calls = 3
    /\ prompt.err = OK
    /\ prompt.val = <<"a", "a">>

\* ================================================================== ui.MinLen
MaxInputLen == 3

ErrMinLen == "input does not meet minimum length requirement"

\* the strings handed to the validator
MinLenInputs == SeqsUpTo({"a", " ", "\t"}, MaxInputLen)

\* the input without its white space
NonSpace(s) == SelectSeq(s, LAMBDA c : c \notin WhiteSpace)

\* MinLen that trims the input and counts what is left
MinLenResultTrims(n, s) ==
    IF Len(TrimBothSpace(s)) < n THEN ErrMinLen ELSE OK

\* MinLen(n)(s): the error of the validator
MinLenResult(n, s) ==
    IF Len(NonSpace(s)) < n THEN ErrMinLen ELSE OK

MinLen(n, s) ==
    /\ last' = [op |-> "MinLen", arg |-> s, ctx |-> Nil, err |-> MinLenResult(n, s),
                length |-> n]
    /\ UNCHANGED <<contextsFile, currentFile, contexts, current, ctxMap, currentCtx,
                   running, listed, failures, cfg, cmds, config, env, baseDir,
                   homePath, stepBasePath, procs, prompt, claims>>

InitMinLen ==
    /\ contextsFile = Absent
    /\ currentFile = CurAbsent
    /\ contexts = ZeroCtxState.contexts
    /\ current = ZeroCtxState.current
    /\ ctxMap = EmptyMap
    /\ currentCtx = Nil
    /\ running = TRUE
    /\ listed = <<>>
    /\ failures = 0
    /\ cfg = NoCfg
    /\ cmds = <<HelpCommand>>
    /\ claims = NewClaims
    /\ config = NoConfig
    /\ env = OrdinaryEnv
    /\ baseDir = "dir"
    /\ homePath = ResolvePaths(env).homePath
    /\ stepBasePath = ResolvePaths(env).stepBasePath
    /\ procs = NoProcs
    /\ prompt = NoPrompt
    /\ last = NoCall

NextMinLen == \E n \in MinLengths, s \in MinLenInputs : MinLen(n, s)

SpecMinLen == InitMinLen /\ [][NextMinLen]_vars

\* C30 (SpecMinLen): MinLen(n) accepts an input exactly when the number of
\* its characters that are not white space is at least n, wherever the white
\* space stands, and accepts every input when n is zero or negative.
C30_CountsNonSpace ==
    last.op = "MinLen"
    => (/\ last.err = OK
           <=> Cardinality({i \in DOMAIN last.arg : last.arg[i] \notin WhiteSpace})
                 >= last.length
        /\ last.length <= 0 => last.err = OK)

\* C30 witness: MinLen(3) refused "a a", which has three characters and two
\* that are not white space.
C30_Witness ==
    /\ last.op = "MinLen"
    /\ last.length = 3
    /\ last.arg = <<"a", " ", "a">>
    /\ last.err # OK

\* ========================================================== token.WithValidity
\* A time.Time is the zero time or an instant, counted in ticks since the
\* epoch; a time.Duration is a number of ticks.  A second has TicksPerSecond
\* ticks, so that an instant need not fall on a whole second.
TicksPerSecond == 2

\* MinValidity, MaxValidity and MaxValidityDelay are declared in a file of
\* package token that is not among the sources; WithValidity only compares
\* against them.  They stand here as durations in ticks with
\* MinValidity < MaxValidityDelay < MaxValidity.
MinValidity == 2
MaxValidityDelay == 4
MaxValidity == 6

ZeroTime == <<>>
At(t) == <<t>>
IsZero(t) == t = ZeroTime

\* t.Sub(u) and t.Before(u) of two instants; the instants of the model are far
\* from the range where Sub saturates
Sub(t, u) == t[1] - u[1]
Before(t, u) == t[1] < u[1]

\* t.Unix(): the whole seconds since the epoch
Unix(t) == t[1] \div TicksPerSecond

\* jose.NewNumericDate(t): nil for the zero time, else the seconds of t
NewNumericDate(t) == IF IsZero(t) THEN Nil ELSE Ptr(Unix(t))

ErrValidityDelay == "requested validity delay is too long"
ErrNbfExp == "nbf < exp"
ErrValidityShort == "requested token validity is too short"
ErrValidityLong == "requested token validity is too long"

\* the instants a caller asks for and the clock readings of timeNowUTC()
Instants == {At(t) : t \in 0 .. (MaxValidityDelay + MaxValidity + TicksPerSecond)}
Times == {ZeroTime} \cup Instants
Nows == {At(t) : t \in 0 .. 1}

\* WithValidity that also refuses a validity of exactly MinValidity
WithValidityResultStrict(c, now, notBefore, expiration) ==
    IF ~IsZero(notBefore) /\ Sub(notBefore, now) > MaxValidityDelay
    THEN [claims |-> c, err |-> ErrValidityDelay]
    ELSE IF ~IsZero(expiration) /\ ~IsZero(notBefore) /\ Before(expiration, notBefore)
    THEN [claims |-> c, err |-> ErrNbfExp]
    ELSE IF ~IsZero(expiration) /\ ~IsZero(notBefore)
            /\ Sub(expiration, notBefore) <= MinValidity
    THEN [claims |-> c, err |-> ErrValidityShort]
    ELSE IF ~IsZero(expiration) /\ ~IsZero(notBefore)
            /\ Sub(expiration, notBefore) > MaxValidity
    THEN [claims |-> c, err |-> ErrValidityLong]
    ELSE [claims |-> [c EXCEPT !.NotBefore = NewNumericDate(notBefore),
                               !.Expiry = NewNumericDate(expiration)],
          err |-> OK]

\* WithValidity(notBefore, expiration)(c) when the clock reads now: the claims
\* afterwards and the error
WithValidityResult(c, now, notBefore, expiration) ==
    IF ~IsZero(notBefore) /\ Sub(notBefore, now) > MaxValidityDelay
    THEN [claims |-> c, err |-> ErrValidityDelay]
    ELSE IF ~IsZero(expiration) /\ ~IsZero(notBefore) /\ Before(expiration, notBefore)
    THEN [claims |-> c, err |-> ErrNbfExp]
    ELSE IF ~IsZero(expiration) /\ ~IsZero(notBefore)
            /\ Sub(expiration, notBefore) < MinValidity
    THEN [claims |-> c, err |-> ErrValidityShort]
    ELSE IF ~IsZero(expiration) /\ ~IsZero(notBefore)
            /\ Sub(expiration, notBefore) > MaxValidity
    THEN [claims |-> c, err |-> ErrValidityLong]
    ELSE [claims |-> [c EXCEPT !.NotBefore = NewNumericDate(notBefore),
                               !.Expiry = NewNumericDate(expiration)],
          err |-> OK]

WithValidity(notBefore, expiration) ==
    \E now \in Nows :
        LET r == WithValidityResult(claims, now, notBefore, expiration) IN
        /\ claims' = r.claims
        /\ last' = [op |-> "WithValidity", arg |-> <<notBefore, expiration>>,
                    ctx |-> Nil, err |-> r.err, now |-> now, before |-> claims]
        /\ UNCHANGED <<contextsFile, currentFile, contexts, current, ctxMap,
                       currentCtx, running, listed, failures, cfg, cmds, config,
                       env, baseDir, homePath, stepBasePath, procs, prompt>>

InitValidity ==
    /\ contextsFile = Absent
    /\ currentFile = CurAbsent
    /\ contexts = ZeroCtxState.contexts
    /\ current = ZeroCtxState.current
    /\ ctxMap = EmptyMap
    /\ currentCtx = Nil
    /\ running = TRUE
    /\ listed = <<>>
    /\ failures = 0
    /\ cfg = NoCfg
    /\ cmds = <<HelpCommand>>
    /\ claims = NewClaims
    /\ config = NoConfig
    /\ env = OrdinaryEnv
    /\ baseDir = "dir"
    /\ homePath = ResolvePaths(env).homePath
    /\ stepBasePath = ResolvePaths(env).stepBasePath
    /\ procs = NoProcs
    /\ prompt = NoPrompt
    /\ last = NoCall

NextValidity == \E notBefore \in Times, expiration \in Times :
                    WithValidity(notBefore, expiration)

SpecValidity == InitValidity /\ [][NextValidity]_vars

\* C31 (SpecValidity): WithValidity(notBefore, expiration) returns an error
\* exactly when notBefore is not the zero time and lies more than
\* MaxValidityDelay after now, or when neither is the zero time and expiration
\* is before notBefore or expiration - notBefore is below MinValidity or above
\* MaxValidity; a refused call leaves the claims as they were, an accepted call
\* sets nbf and exp to the seconds of the two times, and leaves the claim of a
\* zero time unset.
C31_ValidityBounds ==
    last.op = "WithValidity"
    => LET nb == last.arg[1]
           ex == last.arg[2]
           tooLate == nb # ZeroTime /\ nb[1] - last.now[1] > MaxValidityDelay
           badSpan == /\ nb # ZeroTime
                      /\ ex # ZeroTime
                      /\ \/ ex[1] < nb[1]
                         \/ ex[1] - nb[1] < MinValidity
                         \/ ex[1] - nb[1] > MaxValidity
       IN  /\ last.err # OK <=> (tooLate \/ badSpan)
           /\ last.err # OK => claims = last.before
           /\ last.err = OK =>
                /\ claims.NotBefore =
                     IF nb = ZeroTime THEN Nil ELSE Ptr(nb[1] \div TicksPerSecond)
                /\ claims.Expiry =
                     IF ex = ZeroTime THEN Nil ELSE Ptr(ex[1] \div TicksPerSecond)

\* C31 witness: with nbf and exp already set, a validity of exactly
\* MinValidity starting at the instant now was accepted and set both claims.
C31_Witness ==
    /\ last.op = "WithValidity"
    /\ last.before.NotBefore # Nil
    /\ last.before.Expiry # Nil
    /\ last.arg[1] = last.now
    /\ last.arg[2] = At(last.now[1] + MinValidity)
    /\ last.err = OK
    /\ claims = [NotBefore |-> Ptr(last.now[1] \div TicksPerSecond),
                 Expiry |-> Ptr((last.now[1] + MinValidity) \div TicksPerSecond)]
    /\ claims # last.before

\* ------------------------------------------- the two files taken together
\* current-context.json, when it holds a name, names a key of contexts.json
PointerValid ==
    currentFile.state = "json"
    => (/\ contextsFile.state = "json"
        /\ currentFile.context \in DOMAIN contextsFile.entries)

\* the map in memory is the one Init would load from contexts.json
MapLoaded ==
    /\ initMap(ZeroCtxState).err = OK
    /\ contexts = initMap(ZeroCtxState).contexts

\* C32 (Spec): a call of Add, Remove, Set or SaveCurrent, successful or not,
\* made by a process whose map is the one loaded from contexts.json, leaves
\* current-context.json naming a context of contexts.json if it did so before.
C32_PointerStaysValid ==
    [][(PointerValid /\ MapLoaded) => PointerValid']_vars

\* C33 (Spec): when a process that started on an empty configuration
\* directory adds a context c and Add returns nil, the Init of a fresh process
\* returns nil, its current context is c with the same name, profile and
\* authority, and Enabled() is true, without any Set or SaveCurrent call.
C33_FirstAddBootstraps ==
    [][(/\ contextsFile = Absent
        /\ currentFile = CurAbsent
        /\ contexts = ZeroCtxState.contexts
        /\ current = ZeroCtxState.current
        /\ last'.op = "Add"
        /\ last'.err = OK)
       => (/\ InitResult'.err = OK
           /\ InitResult'.current = last'.ctx
           /\ InitResult'.current # Nil \/ MapLen(InitResult'.contexts) > 0)]_vars

\* C33 witness: the first call of a process on the empty directory was
\* Add of context b with an empty profile, it returned nil, and a fresh Init
\* finds b as the current context.
C33_Witness ==
    /\ last.op = "Add"
    /\ last.err = OK
    /\ last.ctx = Ptr([Name |-> "b", Profile |-> "", Authority |-> "y"])
    /\ current = Nil
    /\ failures = 0
    /\ DOMAIN contexts.entries = {"b"}
    /\ DOMAIN contextsFile.entries = {"b"}
    /\ currentFile = CurrentJSON("b")
    /\ InitResult.err = OK
    /\ InitResult.current = last.ctx

\* C34 (Spec): in a process without a current context, when a successful
\* Add(a) has stored a in current-context.json and Add(b) with another name
\* follows and returns nil, current-context.json still names a.
C34_OnlyFirstAddPromotes ==
    [][(/\ last.op = "Add"
        /\ last.err = OK
        /\ current = Nil
        /\ currentFile = CurrentJSON(last.arg)
        /\ last'.op = "Add"
        /\ last'.err = OK
        /\ last'.arg # last.arg)
       => currentFile' = currentFile]_vars

\* C35 (Spec): when Set(name) returns an error because the map has no entry
\* called name, the current context in memory is the one it was before the
\* call.
C35_FailedSetKeepsCurrent ==
    [][(/\ current # Nil
        /\ last'.op = "Set"
        /\ last'.err # OK
        /\ ~Has(contexts, last'.arg))
       => current' = current]_vars

\* C36 (Spec): when Add or Remove returns the error of a failed write of
\* contexts.json, the context map in memory is the one it was before the call.
C36_FailedWriteKeepsMap ==
    [][(/\ last'.op \in {"Add", "Remove"}
        /\ last'.err = ErrIO
        /\ failures' = failures + 1
        /\ contextsFile' = contextsFile
        /\ currentFile' = currentFile)
       => contexts' = contexts]_vars

\* ================================================ CtxState.List, UserSelect
\* List: make([]*Context, len(cs.contexts)) is a slice of that many nil
\* pointers, and the range over the map appends to it, in any order
ListResults(cm) ==
    {[i \in 1..MapLen(cm) |-> Nil] \o [i \in 1..MapLen(cm) |-> Ptr(cm.entries[o[i]])] :
        o \in KeyOrders(cm)}

List ==
    /\ \E l \in ListResults(contexts) : listed' = l
    /\ last' = Call("List", "", Nil, OK)
    /\ UNCHANGED <<contextsFile, currentFile, contexts, current, ctxMap, currentCtx,
                   running, failures, cfg, cmds, config, env, baseDir, homePath,
                   stepBasePath, procs, prompt, claims>>

\* UserSelect: context.Name is read from every element of List(), which
\* panics on a nil one; a single item is selected without asking, otherwise
\* ui.Select returns an index (sel > 0) or an error (sel = 0)
UserSelectResult(cm, cur, l, sel) ==
    IF \E i \in 1..Len(l) : l[i] = Nil
    THEN [current |-> cur, arg |-> "", err |-> ErrPanic]
    ELSE IF Len(l) = 1
    THEN [current |-> SetResult(cm, Deref(l[1]).Name).current,
          arg |-> Deref(l[1]).Name,
          err |-> SetResult(cm, Deref(l[1]).Name).err]
    ELSE IF sel = 0 \/ sel > Len(l)
    THEN [current |-> cur, arg |-> "", err |-> ErrUI]
    ELSE [current |-> SetResult(cm, Deref(l[sel]).Name).current,
          arg |-> Deref(l[sel]).Name,
          err |-> SetResult(cm, Deref(l[sel]).Name).err]

UserSelect(sel) ==
    \E l \in ListResults(contexts) :
        LET r == UserSelectResult(contexts, current, l, sel) IN
        /\ listed' = l
        /\ current' = r.current
        /\ last' = Call("UserSelect", r.arg, Nil, r.err)
        /\ UNCHANGED <<contextsFile, currentFile, contexts, ctxMap, currentCtx,
                       running, failures, cfg, cmds, config, env, baseDir,
                       homePath, stepBasePath, procs, prompt, claims>>

NextListAll == List \/ \E sel \in 0..MaxKeys : UserSelect(sel)

SpecListAll == InitList /\ [][NextListAll]_vars

\* C37 (SpecListAll): List() returns one element for each entry of the context
\* map and no more, each of them a non-nil context of the map, and UserSelect
\* does not meet a nil context.
C37_ListHasOnePerEntry ==
    /\ last.op = "List"
       => (/\ Len(listed) = MapLen(contexts)
           /\ \A i \in 1..Len(listed) :
                /\ listed[i] # Nil
                /\ \E k \in DOMAIN contexts.entries : listed[i] = Ptr(contexts.entries[k]))
    /\ last.op = "UserSelect" => last.err # ErrPanic

\* C38 (Spec): whenever a current context is set, the context map has an
\* entry under its name and that entry is the current context, with the same
\* profile and authority, also after Add has stored a context under the name
\* of the current one.
C38_CurrentIsInMap ==
    current # Nil
    => (/\ Has(contexts, Deref(current).Name)
        /\ contexts.entries[Deref(current).Name] = Deref(current))

\* C39 as stated (SpecCommand): a getConfigVars call with the flag --context
\* set makes the named context current and loads no flat defaults file, or,
\* when the map has no context of that name, returns an error and sets no
\* flag.
C39_ContextFlagAlwaysSwitches ==
    (last.op = "getConfigVars" /\ IsSet(cfg.before, "context"))
    => IF Has(ctxMap, String(cfg.before, "context"))
       THEN /\ cfg.currentCtx = Ptr(ctxMap.entries[String(cfg.before, "context")])
            /\ currentCtx = cfg.currentCtx
            /\ "legacy" \notin cfg.read
       ELSE /\ last.err # OK
            /\ cfg.ctx = cfg.before

\* C39 amended (SpecCommand): for a command that is not in noContextList, a
\* getConfigVars call with the flag --context set to a name makes the named
\* context current before it reads any defaults file or sets any flag: the
\* files it reads are those under the authority and the profile of the named
\* context, whatever context was current before, and the flags it sets take
\* their values from them; when the map has no context of that name the call
\* returns the error of the switch, reads no file and sets no flag.  For the
\* commands of noContextList the flag is not looked at: the call returns nil,
\* the current context stays and no flag is set.
C39_ContextFlagSwitchesFirst ==
    (last.op = "getConfigVars" /\ IsSet(cfg.before, "context"))
    => LET name == String(cfg.before, "context") IN
       IF \E i \in DOMAIN noContextList : cfg.cmd = noContextList[i]
       THEN /\ last.err = OK
            /\ currentCtx = cfg.was
            /\ cfg.read = {}
            /\ cfg.ctx = cfg.before
       ELSE IF Has(ctxMap, name)
       THEN /\ cfg.currentCtx = Ptr(ctxMap.entries[name])
            /\ currentCtx = cfg.currentCtx
            /\ ~cfg.asked
            /\ cfg.read \subseteq {"authority", "profile"}
            /\ Path = Join(<<stepBasePath, <<"authorities">>,
                             <<ctxMap.entries[name].Authority>>>>)
            /\ ProfilePath = Join(<<stepBasePath, <<"profiles">>,
                                    <<ctxMap.entries[name].Profile>>>>)
            /\ \A i \in DOMAIN cfg.ctx.sets :
                  /\ Has(cfg.merged, cfg.ctx.sets[i][1])
                  /\ \/ /\ cfg.ctx.sets[i][1] \in DOMAIN cfg.pfile.entries
                        /\ cfg.pfile.state = "json"
                     \/ /\ cfg.ctx.sets[i][1] \in DOMAIN cfg.afile.entries
                        /\ cfg.afile.state = "json"
       ELSE /\ last.err = ErrCouldNotLoad
            /\ cfg.read = {}
            /\ cfg.ctx = cfg.before

\* C39 witness: context a was the current one, ca certificate ran with
\* --context b, b became current and a flag was set from its defaults.
C39_Witness ==
    /\ last.op = "getConfigVars"
    /\ last.err = OK
    /\ cfg.cmd = "ca certificate"
    /\ cfg.was # Nil
    /\ Deref(cfg.was).Name = "a"
    /\ IsSet(cfg.before, "context")
    /\ String(cfg.before, "context") = "b"
    /\ currentCtx = Ptr(ctxMap.entries["b"])
    /\ cfg.read = {"authority", "profile"}
    /\ Len(cfg.ctx.sets) > 0

\* C40 (Spec): every context of the context map has an authority and a
\* profile that are not empty and is stored under the key that is its Name.
C40_ContextsAreUsable ==
    \A k \in DOMAIN contexts.entries :
        /\ contexts.entries[k].Authority # ""
        /\ contexts.entries[k].Profile # ""
        /\ contexts.entries[k].Name = k

====
